---- MODULE Spec2Model ----
(***************************************************************************)
(* norns-web: the tempo clock (src/lib/midi.js, "Clock module") and the    *)
(* softcut sample engine (src/scripts/amen.js, SoftcutProcessor) with its  *)
(* main-thread API (src/lib/softcut.js).                                   *)
(*                                                                         *)
(* Units.  Clock time is in milliseconds (performance.now()); the code's   *)
(* _now() is the same reading in seconds.  Beat positions are in units of  *)
(* 1/60000 beat, so that (now - refTime) * (tempo / 60) + refBeats of the  *)
(* code is exactly (now - _refTime) * _tempo + _refBeats here.             *)
(***************************************************************************)
EXTENDS Integers, Sequences, FiniteSets, TLC

VARIABLES
    \* ---- clock (src/lib/midi.js 316-336) ----
    now,             \* performance.now(), ms
    _tempo,          \* bpm
    _running,
    _refTime,        \* ms
    _refBeats,       \* 1/60000 beat
    _nextId,
    _coroutines,     \* keys of the registry Map
    _currentSignal,  \* 0 = null, else the id whose AbortController owns it
    aborted,         \* ids whose AbortController.signal.aborted is true
    pc,              \* per task: position of its async function
    wait,            \* per task: the _accurateSleep promise it awaits
    timers,          \* tasks with a pending setTimeout, in registration order
    mq,              \* microtask (promise job) queue, FIFO
    stack,           \* synchronous call stack of task segments, top last
    firstSeg,        \* tasks whose run() call has not yet returned
    segs,            \* per task: user segments executed so far
    outcome,         \* per task: how its function ended
    cancelledSusp,   \* history: ids suspended in sleep/sync when cancel(id),
                     \* cleanup() or reset() was called to end them
    ranAfter,        \* history: ids that ran user code after that
    tempo_change_handler,  \* clock.tempo_change_handler is set (not null)
    handlerCalls,    \* arguments of the handler calls the latest set_tempo made
    transport,       \* clock.transport: which of the start and stop hooks are set
    transportCalls,  \* transport hooks the latest start() or stop() call fired
    fnSegs,          \* segments (awaits + 1) of the functions given to clock.run
    \* ---- script loader (src/lib/midi.js 232-233) ----
    _currentScript,  \* 0 = null, else the number of the module stored
    loadPc,          \* per loader call: position of its async function
    loadKind,        \* per loader call: "run", "runFile" or "stop"
    inited,          \* history: scripts whose init was invoked
    cleaned,         \* history: scripts whose cleanup was called
    \* ---- softcut.init calls (src/lib/softcut.js 34-66) ----
    initPc,          \* per init call: position of its async function
    nodes,           \* history: worklet nodes created and connected
    \* ---- softcut engine (src/scripts/amen.js 1223-1263) ----
    voices,          \* this.voices
    buffers,         \* this.buffers
    phasePolling,    \* this.phasePolling
    fault,           \* "none", or where the processor threw
    port,            \* commands posted to the processor, not yet handled
    events,          \* messages posted by the processor, not yet handled
    mix,             \* per voice: what it added to outL/outR in the last block
    wrote,           \* per voice: buffer indices it wrote in the last block
    crossed,         \* history, per voice: its phase crossed a loop boundary
    tape,            \* history: input samples fed while a voice was recording
    recPos,          \* history: the position (1/100 s) where the recording of tape began
    sent,            \* history: control API calls made
    blocks,          \* history: blocks processed
    \* ---- control API (src/lib/softcut.js 7-15) ----
    audioCtx,        \* an AudioContext has been taken or created
    workletNode,     \* the worklet node exists
    callResult,      \* how the latest control call ended for its caller
    _phaseCallback,  \* a phase callback is stored (not null)
    phaseCall,       \* arguments of the latest call of the phase callback
    _bufferReadResolve  \* 0 = null, else the number of the call whose resolver is stored

clockVars == <<now, _tempo, _running, _refTime, _refBeats, _nextId, _coroutines,
               _currentSignal, aborted, pc, wait, timers, mq, stack, firstSeg,
               segs, outcome, cancelledSusp, ranAfter, tempo_change_handler,
               handlerCalls, transport, transportCalls, fnSegs, _currentScript,
               loadPc, loadKind, inited, cleaned, initPc, nodes>>

loaderVars == <<_currentScript, loadPc, loadKind, inited, cleaned>>

initVars == <<initPc, nodes>>

hostVars == <<loaderVars, initVars>>

clockOnlyVars == <<now, _tempo, _running, _refTime, _refBeats, _nextId, _coroutines,
                   _currentSignal, aborted, pc, wait, timers, mq, stack, firstSeg,
                   segs, outcome, cancelledSusp, ranAfter, tempo_change_handler,
                   handlerCalls, transport, transportCalls, fnSegs>>

hookVars == <<tempo_change_handler, handlerCalls, transport, transportCalls>>

engineVars == <<voices, buffers, phasePolling, fault, port, events, mix, wrote,
                crossed, tape, recPos, sent, blocks>>

callbackVars == <<_phaseCallback, phaseCall, _bufferReadResolve>>

apiVars == <<audioCtx, workletNode, callResult, callbackVars>>

vars == <<clockVars, engineVars, apiVars>>

----------------------------------------------------------------------------
(* Bounds of the clock model *)

MaxTasks == 2        \* ids handed out by clock.run
MaxSegs == 2         \* user segments (code between two awaits) per task
MaxLoopSegs == 3     \* user segments per task, for tasks that loop
MaxTime == 4         \* horizon, in quarter seconds

Horizon == MaxTime * 250

Ids == 1..MaxTasks
TempoArgs == {0, 60, 400}        \* arguments of set_tempo (bpm)
SleepArgs == {0, 3, 250}         \* arguments of sleep (ms): <= 0, spin, timer
BeatArgs == {15000, 60000}       \* arguments of sync: 1/4 beat, 1 beat
OffsetArgs == {0}
SyncTempoArgs == {60, 120}      \* set_tempo arguments used next to sync
TickSteps == {125}

BEAT == 60 * 1000                \* one beat, in beat units (60 s per minute, ms)
EPS_SYNC == 6                    \* 0.0001 beat  (midi.js 481)

NoWait == [kind |-> "none", target |-> 0, sig |-> 0, beat |-> 0, offset |-> 0,
           grid |-> FALSE]

----------------------------------------------------------------------------
(* Timing helpers *)

Max(a, b) == IF a >= b THEN a ELSE b
Min(a, b) == IF a <= b THEN a ELSE b

\* Math.ceil(a / b) for b > 0
CeilDiv(a, b) == -((-a) \div b)

\* _getBeats()
getBeats == IF ~_running THEN _refBeats ELSE (now - _refTime) * _tempo + _refBeats

\* the clamp of _setTempo(bpm) without its lower limit
ClampTempo_NoFloor(bpm) == Min(300, bpm)

\* Math.max(1, Math.min(300, bpm))
ClampTempo(bpm) == Max(1, Min(300, bpm))

Top == stack[Len(stack)]
Pop == SubSeq(stack, 1, Len(stack) - 1)
Idle == stack = <<>> /\ mq = <<>>
\* An API call is made either by the task segment that is executing, or by
\* control code running as a task of its own on the idle event loop.
CanCall == stack # <<>> \/ mq = <<>>

Remove(s, x) == SelectSeq(s, LAMBDA y : y # x)

----------------------------------------------------------------------------
MaxLoads == 3        \* calls of loader.run, loader.runFile and loader.stop
Loads == 1..MaxLoads

\* the loader as the module is loaded: no script, no call under way
LoaderLoaded ==
    /\ _currentScript = 0
    /\ loadPc = [c \in Loads |-> "idle"]
    /\ loadKind = [c \in Loads |-> "none"]
    /\ inited = {}
    /\ cleaned = {}

MaxInits == 3        \* calls of softcut.init
Inits == 1..MaxInits

\* no softcut.init call made yet
NoInitCalls ==
    /\ initPc = [c \in Inits |-> "idle"]
    /\ nodes = 0

InitClock ==
    /\ now = 0
    /\ _tempo = 120
    /\ _running = FALSE
    /\ _refTime = 0
    /\ _refBeats = 0
    /\ _nextId = 1
    /\ _coroutines = {}
    /\ _currentSignal = 0
    /\ aborted = {}
    /\ pc = [t \in Ids |-> "unborn"]
    /\ wait = [t \in Ids |-> NoWait]
    /\ timers = <<>>
    /\ mq = <<>>
    /\ stack = <<>>
    /\ firstSeg = {}
    /\ segs = [t \in Ids |-> 0]
    /\ outcome = [t \in Ids |-> "none"]
    /\ cancelledSusp = {}
    /\ ranAfter = {}
    /\ tempo_change_handler = FALSE
    /\ handlerCalls = <<>>
    /\ transport = [start |-> FALSE, stop |-> FALSE]
    /\ transportCalls = <<>>
    /\ fnSegs = MaxSegs
    /\ LoaderLoaded
    /\ NoInitCalls

taskVars == <<_nextId, _coroutines, _currentSignal, aborted, pc, wait, timers, mq,
              stack, firstSeg, segs, outcome, cancelledSusp, ranAfter>>
beatVars == <<_tempo, _running, _refTime, _refBeats>>

\* Time passes on the idle event loop.  A due timer callback runs before time
\* moves on: the callback spins until targetTime and resolves there.
Tick(d) ==
    /\ Idle
    /\ d > 0
    /\ now + d <= Horizon
    /\ \A i \in 1..Len(timers) : now + d <= wait[timers[i]].target
    /\ now' = now + d
    /\ UNCHANGED <<beatVars, taskVars>>
    /\ UNCHANGED <<fnSegs, hostVars, engineVars, apiVars, hookVars>>

\* _setTempo(bpm) without the rebase of the reference point
SetTempoEffect_NoRebase(bpm) ==
    /\ _tempo' = ClampTempo(bpm)
    /\ UNCHANGED <<_refTime, _refBeats>>

\* _setTempo(bpm)
SetTempoEffect(bpm) ==
    IF ClampTempo(bpm) = _tempo
    THEN UNCHANGED <<_tempo, _refTime, _refBeats>>
    ELSE /\ _refBeats' = getBeats
         /\ _refTime' = now
         /\ _tempo' = ClampTempo(bpm)

\* What _setTempo(bpm) passes to clock.tempo_change_handler: nothing after
\* the early return or when no handler is set, else the new _tempo.
HandlerCalled(bpm) ==
    IF ClampTempo(bpm) # _tempo /\ tempo_change_handler
    THEN <<ClampTempo(bpm)>>
    ELSE <<>>

\* clock.internal.set_tempo(bpm), clock.link.set_tempo(bpm)
SetTempo(bpm) ==
    /\ CanCall
    /\ SetTempoEffect(bpm)
    /\ handlerCalls' = HandlerCalled(bpm)
    /\ UNCHANGED <<now, _running, taskVars, tempo_change_handler, transport,
                   transportCalls>>
    /\ UNCHANGED <<fnSegs, hostVars, engineVars, apiVars>>

\* clock.tempo_change_handler = fn
SetHandler ==
    /\ CanCall
    /\ ~tempo_change_handler
    /\ tempo_change_handler' = TRUE
    /\ UNCHANGED <<now, beatVars, taskVars, handlerCalls, transport, transportCalls>>
    /\ UNCHANGED <<fnSegs, hostVars, engineVars, apiVars>>

\* clock.transport.start = fn, clock.transport.stop = fn
SetTransport(h) ==
    /\ CanCall
    /\ ~transport[h]
    /\ transport' = [transport EXCEPT ![h] = TRUE]
    /\ UNCHANGED <<now, beatVars, taskVars, tempo_change_handler, handlerCalls,
                   transportCalls>>
    /\ UNCHANGED <<fnSegs, hostVars, engineVars, apiVars>>

\* clock.internal.start() without its early return
Start_NoGuard ==
    /\ CanCall
    /\ _refTime' = now
    /\ _running' = TRUE
    /\ transportCalls' = IF transport.start THEN <<"start">> ELSE <<>>
    /\ UNCHANGED <<now, _tempo, _refBeats, taskVars>>
    /\ UNCHANGED <<tempo_change_handler, handlerCalls, transport>>
    /\ UNCHANGED <<fnSegs, hostVars, engineVars, apiVars>>

\* clock.internal.start()
Start ==
    /\ CanCall
    /\ IF _running
       THEN /\ UNCHANGED <<_refTime, _running>>
            /\ transportCalls' = <<>>
       ELSE /\ _refTime' = now
            /\ _running' = TRUE
            /\ transportCalls' = IF transport.start THEN <<"start">> ELSE <<>>
    /\ UNCHANGED <<now, _tempo, _refBeats, taskVars>>
    /\ UNCHANGED <<tempo_change_handler, handlerCalls, transport>>
    /\ UNCHANGED <<fnSegs, hostVars, engineVars, apiVars>>

\* clock.internal.stop()
Stop ==
    /\ CanCall
    /\ IF ~_running
       THEN /\ UNCHANGED <<_refBeats, _running>>
            /\ transportCalls' = <<>>
       ELSE /\ _refBeats' = getBeats
            /\ _running' = FALSE
            /\ transportCalls' = IF transport.stop THEN <<"stop">> ELSE <<>>
    /\ UNCHANGED <<now, _tempo, _refTime, taskVars>>
    /\ UNCHANGED <<tempo_change_handler, handlerCalls, transport>>
    /\ UNCHANGED <<fnSegs, hostVars, engineVars, apiVars>>

----------------------------------------------------------------------------
(* Tasks: clock.run, clock.cancel, clock.sleep, clock.sync *)

\* The synchronous segment of task t ends (it reached an await, returned or
\* threw).  If this was the segment started inside run(), run() now executes
\* _coroutines.set(id, ...) and returns.
SegEnd(t) ==
    /\ stack' = Pop
    /\ firstSeg' = firstSeg \ {t}
    /\ _coroutines' = IF t \in firstSeg THEN _coroutines \cup {t} ELSE _coroutines

\* Registry after run(fn) when fn throws synchronously: catch and finally
\* (delete) run inside the async wrapper before run() reaches set().
RegistryAfterSyncThrow(id) == (_coroutines \ {id}) \cup {id}

\* clock.run(fn).  kind "syncThrow": fn is a plain function that throws before
\* returning a promise.  kind "async": fn runs up to its first await.
Run(kind) ==
    /\ CanCall
    /\ _nextId <= MaxTasks
    /\ LET id == _nextId IN
       /\ _nextId' = id + 1
       /\ _currentSignal' = id
       /\ IF kind = "syncThrow"
          THEN /\ pc' = [pc EXCEPT ![id] = "done"]
               /\ outcome' = [outcome EXCEPT ![id] = "threw"]
               /\ _coroutines' = RegistryAfterSyncThrow(id)
               /\ UNCHANGED <<stack, firstSeg, segs>>
          ELSE /\ pc' = [pc EXCEPT ![id] = "running"]
               /\ stack' = Append(stack, id)
               /\ firstSeg' = firstSeg \cup {id}
               /\ segs' = [segs EXCEPT ![id] = 1]
               /\ UNCHANGED <<_coroutines, outcome>>
    /\ UNCHANGED <<now, beatVars, aborted, wait, timers, mq, cancelledSusp, ranAfter>>
    /\ UNCHANGED <<fnSegs, hostVars, engineVars, apiVars, hookVars>>

\* Tasks whose pending sleep has its abort listener on the signal of id.
ListenersOf(id) == SelectSeq(timers, LAMBDA t : wait[t].sig = id)

RECURSIVE Rejections(_)
Rejections(s) ==
    IF s = <<>> THEN <<>> ELSE <<<<"sleepErr", Head(s)>>>> \o Rejections(Tail(s))

\* clock.cancel(id)
Cancel(id) ==
    /\ CanCall
    /\ IF id \in _coroutines
       THEN /\ aborted' = aborted \cup {id}
            /\ _coroutines' = _coroutines \ {id}
            /\ LET hit == IF id \in aborted THEN <<>> ELSE ListenersOf(id) IN
               /\ timers' = SelectSeq(timers, LAMBDA t : wait[t].sig # id \/ id \in aborted)
               /\ mq' = mq \o Rejections(hit)
               /\ pc' = [t \in Ids |->
                           IF \E i \in 1..Len(hit) : hit[i] = t THEN "queued" ELSE pc[t]]
            /\ cancelledSusp' =
                 IF pc[id] = "sleeping" THEN cancelledSusp \cup {id} ELSE cancelledSusp
       ELSE UNCHANGED <<aborted, _coroutines, timers, mq, pc, cancelledSusp>>
    /\ UNCHANGED <<now, beatVars, _nextId, _currentSignal, wait, stack, firstSeg, segs,
                   outcome, ranAfter>>
    /\ UNCHANGED <<fnSegs, hostVars, engineVars, apiVars, hookVars>>

\* clock.reset(): every registered task is aborted (its pending sleep rejects,
\* its timer is cleared), the registry is emptied, tempo, transport and
\* reference point return to their defaults and the hooks are nulled.
Reset ==
    /\ CanCall
    /\ aborted' = aborted \cup _coroutines
    /\ _coroutines' = {}
    /\ LET live == _coroutines \ aborted
           hit == SelectSeq(timers, LAMBDA t : wait[t].sig \in live) IN
       /\ timers' = SelectSeq(timers, LAMBDA t : wait[t].sig \notin live)
       /\ mq' = mq \o Rejections(hit)
       /\ pc' = [t \in Ids |->
                   IF \E i \in 1..Len(hit) : hit[i] = t THEN "queued" ELSE pc[t]]
    /\ cancelledSusp' = cancelledSusp \cup {id \in _coroutines : pc[id] = "sleeping"}
    /\ _tempo' = 120
    /\ _running' = FALSE
    /\ _refTime' = now
    /\ _refBeats' = 0
    /\ tempo_change_handler' = FALSE
    /\ transport' = [start |-> FALSE, stop |-> FALSE]
    /\ UNCHANGED <<now, _nextId, _currentSignal, wait, stack, firstSeg, segs,
                   outcome, ranAfter, handlerCalls, transportCalls>>
    /\ UNCHANGED <<fnSegs, hostVars, engineVars, apiVars>>

\* clock.cleanup(): every registered task is aborted (a pending sleep that
\* listens on its signal rejects and its timer is cleared), the registry is
\* emptied and the hooks are nulled.
Cleanup ==
    /\ CanCall
    /\ aborted' = aborted \cup _coroutines
    /\ _coroutines' = {}
    /\ LET live == _coroutines \ aborted
           hit == SelectSeq(timers, LAMBDA t : wait[t].sig \in live) IN
       /\ timers' = SelectSeq(timers, LAMBDA t : wait[t].sig \notin live)
       /\ mq' = mq \o Rejections(hit)
       /\ pc' = [t \in Ids |->
                   IF \E i \in 1..Len(hit) : hit[i] = t THEN "queued" ELSE pc[t]]
    /\ cancelledSusp' = cancelledSusp \cup {t \in Ids : pc[t] = "sleeping"}
    /\ transport' = [start |-> FALSE, stop |-> FALSE]
    /\ tempo_change_handler' = FALSE
    /\ UNCHANGED <<now, beatVars, _nextId, _currentSignal, wait, stack, firstSeg, segs,
                   outcome, ranAfter, handlerCalls, transportCalls>>
    /\ UNCHANGED <<fnSegs, hostVars, engineVars, apiVars>>

\* _accurateSleep(d, signal) called by task t (top of the stack); w is the
\* record of what is awaited.  Ends t's segment.
AccurateSleep(t, d, w) ==
    /\ wait' = [wait EXCEPT ![t] = [w EXCEPT !.target = now + d]]
    /\ IF w.sig # 0 /\ w.sig \in aborted
       THEN /\ mq' = Append(mq, <<"sleepErr", t>>)
            /\ pc' = [pc EXCEPT ![t] = "queued"]
            /\ UNCHANGED <<now, timers>>
       ELSE IF d <= 0
       THEN /\ mq' = Append(mq, <<"sleepOk", t>>)
            /\ pc' = [pc EXCEPT ![t] = "queued"]
            /\ UNCHANGED <<now, timers>>
       ELSE IF d <= 4
       THEN /\ now + d <= Horizon
            /\ now' = now + d        \* while (_now() < targetTime) { }
            /\ mq' = Append(mq, <<"sleepOk", t>>)
            /\ pc' = [pc EXCEPT ![t] = "queued"]
            /\ UNCHANGED timers
       ELSE /\ timers' = Append(timers, t)
            /\ pc' = [pc EXCEPT ![t] = "sleeping"]
            /\ UNCHANGED <<now, mq>>
    /\ SegEnd(t)

MaySuspend(t) == segs[t] < fnSegs

\* await clock.sleep(d) in the running task
TaskSleep(d) ==
    /\ stack # <<>>
    /\ MaySuspend(Top)
    /\ AccurateSleep(Top, d, [NoWait EXCEPT !.kind = "sleep", !.sig = _currentSignal])
    /\ UNCHANGED <<beatVars, _nextId, _currentSignal, aborted, segs, outcome,
                   cancelledSusp, ranAfter>>
    /\ UNCHANGED <<fnSegs, hostVars, engineVars, apiVars, hookVars>>

\* The grid point of clock.sync without the step past a point that is within
\* 0.0001 beat of now.
NextBeat_NoAdvance(beat, offset) ==
    CeilDiv(getBeats - offset, beat) * beat + offset

\* The grid point clock.sync(beat, offset) waits for (clock running).
NextBeat(beat, offset) ==
    LET nb == CeilDiv(getBeats - offset, beat) * beat + offset
    IN  IF nb <= getBeats + EPS_SYNC THEN nb + beat ELSE nb

\* Milliseconds clock.sync(beat, offset) sleeps; the wake-up is the first
\* clock reading that is >= targetTime.
SyncWait(beat, offset) ==
    IF ~_running
    THEN CeilDiv(beat, _tempo)
    ELSE CeilDiv(NextBeat(beat, offset) - getBeats, _tempo)

\* await clock.sync(beat, offset) in the running task
TaskSync(beat, offset) ==
    /\ stack # <<>>
    /\ MaySuspend(Top)
    /\ AccurateSleep(Top, SyncWait(beat, offset),
                     [NoWait EXCEPT !.kind = "sync", !.sig = _currentSignal,
                                    !.beat = beat, !.offset = offset,
                                    !.grid = _running])
    /\ UNCHANGED <<beatVars, _nextId, _currentSignal, aborted, segs, outcome,
                   cancelledSusp, ranAfter>>
    /\ UNCHANGED <<fnSegs, hostVars, engineVars, apiVars, hookVars>>

\* await of a promise that is not a clock promise (I/O, another library)
TaskAwait ==
    /\ stack # <<>>
    /\ MaySuspend(Top)
    /\ pc' = [pc EXCEPT ![Top] = "awaiting"]
    /\ SegEnd(Top)
    /\ UNCHANGED <<now, beatVars, _nextId, _currentSignal, aborted, wait, timers, mq,
                   segs, outcome, cancelledSusp, ranAfter>>
    /\ UNCHANGED <<fnSegs, hostVars, engineVars, apiVars, hookVars>>

\* the task's function returns ("returned") or throws an error of its own
\* ("threw") from a segment; the wrapper in run() is resumed by a promise job
TaskEnd(how) ==
    /\ stack # <<>>
    /\ outcome' = [outcome EXCEPT ![Top] = how]
    /\ pc' = [pc EXCEPT ![Top] = "queued"]
    /\ mq' = Append(mq, <<"settle", Top>>)
    /\ SegEnd(Top)
    /\ UNCHANGED <<now, beatVars, _nextId, _currentSignal, aborted, wait, timers,
                   segs, cancelledSusp, ranAfter>>
    /\ UNCHANGED <<fnSegs, hostVars, engineVars, apiVars, hookVars>>

\* the setTimeout callback of t's sleep: spin to targetTime, resolve()
WakeTimer(t) ==
    /\ Idle
    /\ pc[t] = "sleeping"
    /\ now >= wait[t].target
    /\ timers' = Remove(timers, t)
    /\ pc' = [pc EXCEPT ![t] = "queued"]
    /\ mq' = <<<<"sleepOk", t>>>>
    /\ UNCHANGED <<now, beatVars, _nextId, _coroutines, _currentSignal, aborted, wait,
                   stack, firstSeg, segs, outcome, cancelledSusp, ranAfter>>
    /\ UNCHANGED <<fnSegs, hostVars, engineVars, apiVars, hookVars>>

\* the promise a task awaits outside the clock settles
ExternalResolve(t) ==
    /\ Idle
    /\ pc[t] = "awaiting"
    /\ pc' = [pc EXCEPT ![t] = "queued"]
    /\ mq' = <<<<"user", t>>>>
    /\ UNCHANGED <<now, beatVars, _nextId, _coroutines, _currentSignal, aborted, wait,
                   timers, stack, firstSeg, segs, outcome, cancelledSusp, ranAfter>>
    /\ UNCHANGED <<fnSegs, hostVars, engineVars, apiVars, hookVars>>

\* Signal that the continuation of sleep()/sync() stores back
RestoredSignal(t) == wait[t].sig

\* Promise jobs.  Each runs when the call stack is empty, in FIFO order.
\* sleep()/sync() resume after their await: _currentSignal = signal; return
JobSleepOk ==
    /\ stack = <<>> /\ mq # <<>> /\ Head(mq)[1] = "sleepOk"
    /\ LET t == Head(mq)[2] IN
       /\ _currentSignal' = RestoredSignal(t)
       /\ pc' = [pc EXCEPT ![t] = "resumed"]
       /\ mq' = Append(Tail(mq), <<"user", t>>)
    /\ UNCHANGED <<now, beatVars, _nextId, _coroutines, aborted, wait, timers, stack,
                   firstSeg, segs, outcome, cancelledSusp, ranAfter>>
    /\ UNCHANGED <<fnSegs, hostVars, engineVars, apiVars, hookVars>>

\* sleep()/sync() resume with the AbortError and rethrow it
JobSleepErr ==
    /\ stack = <<>> /\ mq # <<>> /\ Head(mq)[1] = "sleepErr"
    /\ LET t == Head(mq)[2] IN
       mq' = Append(Tail(mq), <<"userErr", t>>)
    /\ UNCHANGED <<now, beatVars, _nextId, _coroutines, _currentSignal, aborted, pc,
                   wait, timers, stack, firstSeg, segs, outcome, cancelledSusp, ranAfter>>
    /\ UNCHANGED <<fnSegs, hostVars, engineVars, apiVars, hookVars>>

\* the task's function resumes after its await and runs its next segment
JobUser ==
    /\ stack = <<>> /\ mq # <<>> /\ Head(mq)[1] = "user"
    /\ LET t == Head(mq)[2] IN
       /\ stack' = <<t>>
       /\ pc' = [pc EXCEPT ![t] = "running"]
       /\ wait' = [wait EXCEPT ![t] = NoWait]
       /\ segs' = [segs EXCEPT ![t] = @ + 1]
       /\ ranAfter' = IF t \in cancelledSusp THEN ranAfter \cup {t} ELSE ranAfter
    /\ mq' = Tail(mq)
    /\ UNCHANGED <<now, beatVars, _nextId, _coroutines, _currentSignal, aborted, timers,
                   firstSeg, outcome, cancelledSusp>>
    /\ UNCHANGED <<fnSegs, hostVars, engineVars, apiVars, hookVars>>

\* the task's function receives the AbortError at its await and does not
\* catch it
JobUserErr ==
    /\ stack = <<>> /\ mq # <<>> /\ Head(mq)[1] = "userErr"
    /\ LET t == Head(mq)[2] IN
       /\ outcome' = [outcome EXCEPT ![t] = "aborted"]
       /\ wait' = [wait EXCEPT ![t] = NoWait]
       /\ mq' = Append(Tail(mq), <<"settle", t>>)
    /\ UNCHANGED <<now, beatVars, _nextId, _coroutines, _currentSignal, aborted, pc,
                   timers, stack, firstSeg, segs, cancelledSusp, ranAfter>>
    /\ UNCHANGED <<fnSegs, hostVars, engineVars, apiVars, hookVars>>

\* the wrapper in run() resumes: catch (log unless AbortError), finally delete
JobSettle ==
    /\ stack = <<>> /\ mq # <<>> /\ Head(mq)[1] = "settle"
    /\ LET t == Head(mq)[2] IN
       /\ _coroutines' = _coroutines \ {t}
       /\ pc' = [pc EXCEPT ![t] = "done"]
    /\ mq' = Tail(mq)
    /\ UNCHANGED <<now, beatVars, _nextId, _currentSignal, aborted, wait, timers, stack,
                   firstSeg, segs, outcome, cancelledSusp, ranAfter>>
    /\ UNCHANGED <<fnSegs, hostVars, engineVars, apiVars, hookVars>>

----------------------------------------------------------------------------
(* The softcut engine.                                                     *)
(*                                                                         *)
(* Units.  Times sent by the API (position, loop points, fade, slew,       *)
(* quantum, region start and duration) are in 1/100 s; phase, rate and     *)
(* phase_accum are in 1/100 sample, so value * sampleRate of the code is   *)
(* value * SAMPLE_RATE here.  Sample values, levels and gains are exact    *)
(* rationals <<numerator, denominator>>; Float32 rounding is not modelled. *)

NUM_VOICES == 6
NUM_BUFFERS == 2
SAMPLE_RATE == 2     \* scaled down from 48000
BUF_DURATION == 3    \* seconds; scaled down from 350
BUF_FRAMES == SAMPLE_RATE * BUF_DURATION

MaxCmds == 3         \* control API calls per behaviour
MaxBlocks == 2       \* process() calls per behaviour
BlockSize == 2       \* frames per block (the render quantum)

U == 10 * 10         \* units per second and per sample

Abs(x) == IF x < 0 THEN -x ELSE x
Sign(x) == IF x > 0 THEN 1 ELSE IF x < 0 THEN -1 ELSE 0

RECURSIVE GCD(_, _)
GCD(a, b) == IF b = 0 THEN a ELSE GCD(b, a % b)

\* the one element of a singleton; operands are bound through singletons so
\* that each is evaluated once
Only(S) == CHOOSE x \in S : TRUE

\* the rational n / d (d > 0), in lowest terms
Rat(n, d) == Only({<<x \div g, y \div g>> : x \in {n}, y \in {d}, g \in {GCD(Abs(n), d)}})
Zero == <<0, 1>>
One == <<1, 1>>
RAdd(a, b) ==
    Only({Only({Rat(x[1] * (l \div x[2]) + y[1] * (l \div y[2]), l) :
                  l \in {(x[2] \div GCD(x[2], y[2])) * y[2]}}) :
            x \in {a}, y \in {b}})
RNeg(a) == Only({<<-x[1], x[2]>> : x \in {a}})
RSub(a, b) == RAdd(a, RNeg(b))
RMul(a, b) ==
    Only({IF x[1] = 0 \/ y[1] = 0 THEN Zero
          ELSE Only({<<(x[1] \div g1) * (y[1] \div g2), (x[2] \div g2) * (y[2] \div g1)>> :
                       g1 \in {GCD(Abs(x[1]), y[2])}, g2 \in {GCD(Abs(y[1]), x[2])}}) :
            x \in {a}, y \in {b}})
RLt(a, b) == a[1] * b[2] < b[1] * a[2]
RLe(a, b) == a[1] * b[2] <= b[1] * a[2]
RAbs(a) == <<Abs(a[1]), a[2]>>
\* a value given in hundredths
H(x) == Rat(x, U)

VoiceIdx == 0..(NUM_VOICES - 1)
BufIdx == 0..(NUM_BUFFERS - 1)
FrameIdx == 0..(BUF_FRAMES - 1)

\* the voice pushed by the constructor for index i
DefaultVoice(i) ==
    [enabled |-> 0, playing |-> 0, buffer |-> IF i < 3 THEN 0 ELSE 1,
     rate |-> U, level |-> One, pan |-> 0, position |-> 0, phase |-> 0,
     loop |-> 0, loop_start |-> 0, loop_end |-> BUF_DURATION * U,
     fade_time |-> 1, level_slew_time |-> 0, level_target |-> One,
     rec |-> 0, rec_level |-> One, pre_level |-> Zero,
     phase_quant |-> 0, phase_accum |-> 0]

ZeroBuffer == [i \in FrameIdx |-> Zero]

\* a buffer loaded with the constant sample 1
OneBuffer == [i \in FrameIdx |-> One]

NoMix == [v \in VoiceIdx |-> <<>>]
NoWrites == [v \in VoiceIdx |-> {}]

\* new SoftcutProcessor()
InitEngine ==
    /\ voices = [i \in VoiceIdx |-> DefaultVoice(i)]
    /\ buffers = [b \in BufIdx |-> ZeroBuffer]
    /\ phasePolling = FALSE
    /\ fault = "none"
    /\ audioCtx = TRUE
    /\ workletNode = TRUE
    /\ callResult = "none"
    /\ _phaseCallback = FALSE
    /\ phaseCall = <<>>
    /\ _bufferReadResolve = 0
    /\ port = <<>>
    /\ events = <<>>
    /\ mix = NoMix
    /\ wrote = NoWrites
    /\ crossed = [v \in VoiceIdx |-> FALSE]
    /\ tape = <<>>
    /\ recPos = 0
    /\ sent = 0
    /\ blocks = 0

----------------------------------------------------------------------------
(* process(): the per-frame kernel *)

loopStartSamp(vo) == vo.loop_start * SAMPLE_RATE
loopEndSamp(vo) == vo.loop_end * SAMPLE_RATE
loopLen(vo) == loopEndSamp(vo) - loopStartSamp(vo)
fadeSamples(vo) == vo.fade_time * SAMPLE_RATE

\* 1 / (level_slew_time * sampleRate), or 1 when the slew time is 0
slewRate(vo) ==
    IF vo.level_slew_time > 0 THEN Rat(U, vo.level_slew_time * SAMPLE_RATE) ELSE One

\* Math.cos / Math.sin of panNorm * PI / 2 at the three pan positions used;
\* sqrt(1/2) is taken as 7071/10000 and cos(PI/2) as 0
gainL(vo) == CASE vo.pan = -U -> One [] vo.pan = U -> Zero [] OTHER -> <<7071, 10000>>
gainR(vo) == CASE vo.pan = -U -> Zero [] vo.pan = U -> One [] OTHER -> <<7071, 10000>>

\* the level after the slew step of one frame
\* a slew that always takes a whole step, also over the last part
SlewLevel_NoClamp(vo) ==
    IF vo.level = vo.level_target THEN vo.level
    ELSE LET diff == RSub(vo.level_target, vo.level) IN
         RAdd(vo.level, RMul(<<Sign(diff[1]), 1>>, slewRate(vo)))

SlewLevel(vo) ==
    IF vo.level = vo.level_target THEN vo.level
    ELSE LET diff == RSub(vo.level_target, vo.level) IN
         IF RLt(RAbs(diff), slewRate(vo)) THEN vo.level_target
         ELSE RAdd(vo.level, RMul(<<Sign(diff[1]), 1>>, slewRate(vo)))

\* the frame touches buf[Math.floor(phase)]
InRange(phase) == phase \div U >= 0 /\ phase \div U < BUF_FRAMES

\* read with linear interpolation
ReadSample(buf, phase) ==
    LET idx0 == phase \div U
        frac == Rat(phase - idx0 * U, U)
        idx1 == idx0 + 1
    IN  IF idx0 >= 0 /\ idx1 < BUF_FRAMES
        THEN RAdd(RMul(buf[idx0], RSub(One, frac)), RMul(buf[idx1], frac))
        ELSE IF idx0 >= 0 /\ idx0 < BUF_FRAMES THEN buf[idx0]
        ELSE Zero

\* a crossfade that is a constant half inside both fade zones
FadeGain_Flat(vo, phase) ==
    IF vo.loop # 0 /\ fadeSamples(vo) > 0 /\ loopLen(vo) > 0
    THEN LET distFromStart == phase - loopStartSamp(vo)
             distFromEnd == loopEndSamp(vo) - phase
         IN  IF distFromStart >= 0 /\ distFromStart < fadeSamples(vo)
             THEN Rat(1, 2)
             ELSE IF distFromEnd >= 0 /\ distFromEnd < fadeSamples(vo)
             THEN Rat(1, 2)
             ELSE One
    ELSE One

\* crossfade gain at the loop boundaries
FadeGain(vo, phase) ==
    IF vo.loop # 0 /\ fadeSamples(vo) > 0 /\ loopLen(vo) > 0
    THEN LET distFromStart == phase - loopStartSamp(vo)
             distFromEnd == loopEndSamp(vo) - phase
         IN  IF distFromStart >= 0 /\ distFromStart < fadeSamples(vo)
             THEN Rat(distFromStart, fadeSamples(vo))
             ELSE IF distFromEnd >= 0 /\ distFromEnd < fadeSamples(vo)
             THEN Rat(distFromEnd, fadeSamples(vo))
             ELSE One
    ELSE One

\* recording that drops the previous content
RecordSample_Overwrite(vo, old, x) == RMul(vo.rec_level, x)

\* recording with the two levels exchanged
RecordSample_Swapped(vo, old, x) == RAdd(RMul(vo.pre_level, x), RMul(vo.rec_level, old))

\* the sample recording stores over old when the input sample is x
RecordSample(vo, old, x) == RAdd(RMul(vo.rec_level, x), RMul(vo.pre_level, old))

\* a loop branch taken whatever the loop points
Looping_AnyLength(vo) == vo.loop # 0

\* the loop branch is taken
Looping(vo) == vo.loop # 0 /\ loopLen(vo) > 0

\* the forward wrap taken only when phase is strictly past loop_end
WrapPhase_Strict(vo, p) ==
    IF vo.rate > 0 /\ p > loopEndSamp(vo)
    THEN loopStartSamp(vo) + (p - loopEndSamp(vo))
    ELSE IF vo.rate < 0 /\ p < loopStartSamp(vo)
    THEN loopEndSamp(vo) - (loopStartSamp(vo) - p)
    ELSE p

\* the kernel without the reverse wrap
WrapPhase_ForwardOnly(vo, p) ==
    IF vo.rate > 0 /\ p >= loopEndSamp(vo)
    THEN loopStartSamp(vo) + (p - loopEndSamp(vo))
    ELSE p

\* the advanced phase p after the loop wrap
WrapPhase(vo, p) ==
    IF vo.rate > 0 /\ p >= loopEndSamp(vo)
    THEN loopStartSamp(vo) + (p - loopEndSamp(vo))
    ELSE IF vo.rate < 0 /\ p < loopStartSamp(vo)
    THEN loopEndSamp(vo) - (loopStartSamp(vo) - p)
    ELSE p

\* one-shot: the advanced phase p is outside the buffer
\* a boundary test that knows only the end of the buffer
OutOfBuffer_EndOnly(p) == p >= BUF_FRAMES * U

OutOfBuffer(p) == p >= BUF_FRAMES * U \/ p < 0

\* the advance from phase to p passed a loop boundary in the direction of travel
Crosses(vo, phase, p) ==
    /\ Looping(vo)
    /\ \/ vo.rate > 0 /\ phase < loopEndSamp(vo) /\ p >= loopEndSamp(vo)
       \/ vo.rate < 0 /\ phase >= loopStartSamp(vo) /\ p < loopStartSamp(vo)

PhaseEvent(v, phase) ==
    [type |-> "phase", voice |-> v, phase |-> Rat(phase, U * SAMPLE_RATE),
     ch |-> 0, data |-> <<>>]

\* a phase report that does not look at the polling gate
Reports_Ungated(vo, polling) == vo.phase_quant > 0

\* the frame feeds the phase accumulator of the voice
Reports(vo, polling) == polling /\ vo.phase_quant > 0

\* a frame that also goes on when the voice is recording
FrameRuns_OrRecording(vo) == vo.playing # 0 \/ vo.rec # 0

\* the frame, after the level slew, goes on to read, record and advance
FrameRuns(vo) == vo.playing # 0

\* One frame of voice v.  a = [vo, buf, hasBuf, out, ev, wr, thrown, crossed]:
\* the voice, its buffer (hasBuf: this.buffers[voice.buffer] is defined), the
\* frames' contributions so far, the events posted, the indices written.
Frame(a, v, x, polling) ==
    IF a.thrown THEN a
    ELSE Only({
    LET phase == vo.phase
    IN  IF ~FrameRuns(vo)
        THEN [a EXCEPT !.vo = vo, !.out = Append(@, <<Zero, Zero>>)]
        ELSE IF ~a.hasBuf /\ InRange(phase)
        THEN [a EXCEPT !.vo = vo, !.thrown = TRUE]
        ELSE
        LET recIdx == phase \div U
            records == vo.rec # 0 /\ recIdx >= 0 /\ recIdx < BUF_FRAMES
            buf == IF records
                   THEN [a.buf EXCEPT ![recIdx] = RecordSample(vo, a.buf[recIdx], x)]
                   ELSE a.buf
            p == phase + vo.rate
            p2 == IF Looping(vo) THEN WrapPhase(vo, p) ELSE p
            playing == IF ~Looping(vo) /\ OutOfBuffer(p) THEN 0 ELSE vo.playing
            reports == Reports(vo, polling)
            acc == vo.phase_accum + Abs(vo.rate)
            quantSamples == vo.phase_quant * SAMPLE_RATE
            emits == reports /\ acc >= quantSamples
        IN  Only({
            [a EXCEPT
               !.vo = [vo EXCEPT !.phase = p2, !.playing = playing,
                                 !.phase_accum = IF ~reports THEN @
                                                 ELSE IF emits THEN acc - quantSamples
                                                 ELSE acc],
               !.buf = buf,
               !.out = Append(@, <<RMul(out, gainL(vo)), RMul(out, gainR(vo))>>),
               !.ev = IF emits THEN Append(@, PhaseEvent(v, p2)) ELSE @,
               !.wr = IF records THEN @ \cup {recIdx} ELSE @,
               !.crossed = @ \/ Crosses(vo, phase, p)] :
            out \in {RMul(RMul(ReadSample(a.buf, phase), vo.level),
                          FadeGain(vo, phase))}}) :
    vo \in {[a.vo EXCEPT !.level = SlewLevel(a.vo)]}})

RECURSIVE Frames(_, _, _, _, _)
Frames(a, v, in, polling, i) ==
    IF i > Len(in) THEN a
    ELSE Only({Frames(b, v, in, polling, i + 1) : b \in {Frame(a, v, in[i], polling)}})

\* a voice loop that skips a voice only when it is disabled and not playing
Skipped_Idle(vo) == vo.enabled = 0 /\ vo.playing = 0

\* the voice is skipped by the voice loop
Skipped(vo) == vo.enabled = 0

\* The voice loop from voice v on.  e = [voices, buffers, events, mix, wrote,
\* crossed, thrown].
RECURSIVE VoiceLoop(_, _, _, _)
VoiceLoop(e, v, in, polling) ==
    IF v >= NUM_VOICES \/ e.thrown THEN e
    ELSE IF Skipped(e.voices[v])
    THEN Only({VoiceLoop(e2, v + 1, in, polling) :
                 e2 \in {[e EXCEPT !.mix[v] = [i \in 1..Len(in) |-> <<Zero, Zero>>]]}})
    ELSE
    LET vo == e.voices[v]
        hasBuf == vo.buffer \in BufIdx
    IN  Only({VoiceLoop([voices |-> [e.voices EXCEPT ![v] = a.vo],
                         buffers |-> IF hasBuf
                                     THEN [e.buffers EXCEPT ![vo.buffer] = a.buf]
                                     ELSE e.buffers,
                         events |-> e.events \o a.ev,
                         mix |-> [e.mix EXCEPT ![v] = a.out],
                         wrote |-> [e.wrote EXCEPT ![v] = a.wr],
                         crossed |-> [e.crossed EXCEPT ![v] = a.crossed],
                         thrown |-> a.thrown],
                        v + 1, in, polling) :
                 a \in {Frames([vo |-> vo,
                                buf |-> IF hasBuf THEN e.buffers[vo.buffer]
                                        ELSE ZeroBuffer,
                                hasBuf |-> hasBuf, out |-> <<>>, ev |-> <<>>, wr |-> {},
                                thrown |-> FALSE, crossed |-> e.crossed[v]],
                               v, in, polling, 1)}})

\* process(inputs, outputs) on one block of input samples
Process(in) ==
    /\ fault # "process"
    /\ \E e \in {VoiceLoop([voices |-> voices, buffers |-> buffers, events |-> events,
                            mix |-> NoMix, wrote |-> NoWrites, crossed |-> crossed,
                            thrown |-> FALSE], 0, in, phasePolling)} :
           /\ voices' = e.voices
           /\ buffers' = e.buffers
           /\ events' = e.events
           /\ mix' = e.mix
           /\ wrote' = e.wrote
           /\ crossed' = e.crossed
           /\ fault' = IF e.thrown THEN "process" ELSE fault
    /\ tape' = IF \E v \in VoiceIdx : voices[v].enabled # 0 /\ voices[v].rec # 0
               THEN tape \o in ELSE tape
    /\ blocks' = blocks + 1
    /\ UNCHANGED <<phasePolling, port, recPos, sent, clockVars, apiVars>>

----------------------------------------------------------------------------
(* _handleMessage(msg) *)

Msg(cmd) == [cmd |-> cmd, voice |-> 0, value |-> 0, ch |-> 0, start |-> 0, dur |-> 0,
             data |-> <<>>]

VoiceCmds == {"enable", "play", "buffer", "rate", "level", "pan", "position", "loop",
              "loop_start", "loop_end", "fade_time", "level_slew_time", "rec",
              "rec_level", "pre_level", "phase_quant"}

\* a reset that points every voice at the first buffer
ResetVoice_OneBuffer(i) == [DefaultVoice(i) EXCEPT !.buffer = 0]

\* the voice of index i after the assignments of the reset command
ResetVoice(i) ==
    [enabled |-> 0, playing |-> 0, buffer |-> IF i < 3 THEN 0 ELSE 1,
     rate |-> U, level |-> One, level_target |-> One, pan |-> 0, position |-> 0,
     phase |-> 0, loop |-> 0, loop_start |-> 0, loop_end |-> BUF_DURATION * U,
     fade_time |-> 1, level_slew_time |-> 0, rec |-> 0, rec_level |-> One,
     pre_level |-> Zero, phase_quant |-> 0, phase_accum |-> 0]

\* the voice after a voice command
VoiceAfter(vo, msg) ==
    CASE msg.cmd = "enable" -> [vo EXCEPT !.enabled = msg.value]
      [] msg.cmd = "play" -> [vo EXCEPT !.playing = msg.value]
      [] msg.cmd = "buffer" -> [vo EXCEPT !.buffer = msg.value]
      [] msg.cmd = "rate" -> [vo EXCEPT !.rate = msg.value]
      [] msg.cmd = "level" ->
            [vo EXCEPT !.level_target = H(msg.value),
                       !.level = IF vo.level_slew_time <= 0 THEN H(msg.value) ELSE @]
      [] msg.cmd = "pan" -> [vo EXCEPT !.pan = msg.value]
      [] msg.cmd = "position" -> [vo EXCEPT !.phase = msg.value * SAMPLE_RATE]
      [] msg.cmd = "loop" -> [vo EXCEPT !.loop = msg.value]
      [] msg.cmd = "loop_start" -> [vo EXCEPT !.loop_start = msg.value]
      [] msg.cmd = "loop_end" -> [vo EXCEPT !.loop_end = msg.value]
      [] msg.cmd = "fade_time" -> [vo EXCEPT !.fade_time = msg.value]
      [] msg.cmd = "level_slew_time" -> [vo EXCEPT !.level_slew_time = msg.value]
      [] msg.cmd = "rec" -> [vo EXCEPT !.rec = msg.value]
      [] msg.cmd = "rec_level" -> [vo EXCEPT !.rec_level = H(msg.value)]
      [] msg.cmd = "pre_level" -> [vo EXCEPT !.pre_level = H(msg.value)]
      [] msg.cmd = "phase_quant" -> [vo EXCEPT !.phase_quant = msg.value]

\* Math.floor(seconds * sampleRate)
ToSample(t) == (t * SAMPLE_RATE) \div U

\* only the first buffer is zeroed
ClearAll_FirstOnly(bufs) == [bufs EXCEPT ![0] = ZeroBuffer]

\* buffer_clear and reset: this.buffers[0].fill(0); this.buffers[1].fill(0)
ClearAll(bufs) == [b \in BufIdx |-> ZeroBuffer]

\* buffer_clear_region that also zeros the sample at the end index
ClearRegion_Inclusive(buf, start, dur) ==
    [i \in FrameIdx |->
        IF i >= ToSample(start) /\ i <= ToSample(start + dur) THEN Zero ELSE buf[i]]

\* buffer_clear_region: the loop bounds; writes at negative indices are dropped
ClearRegion(buf, start, dur) ==
    [i \in FrameIdx |->
        IF i >= ToSample(start) /\ i < ToSample(start + dur) THEN Zero ELSE buf[i]]

\* buffer_load: data[i] goes to buf[dst + i] for i < min(data.length, BUF_FRAMES - dst)
LoadLen(data, dst) == Min(Len(data), BUF_FRAMES - dst)

\* a load that moves a start before the buffer up to index 0
LoadBuffer_FromZero(buf, dst, data) ==
    [i \in FrameIdx |->
        IF i - Max(dst, 0) >= 0 /\ i - Max(dst, 0) < LoadLen(data, Max(dst, 0))
        THEN data[i - Max(dst, 0) + 1]
        ELSE buf[i]]

LoadBuffer(buf, dst, data) ==
    [i \in FrameIdx |->
        IF i - dst >= 0 /\ i - dst < LoadLen(data, dst) THEN data[i - dst + 1] ELSE buf[i]]

\* TypedArray.prototype.slice(from, to) on a buffer
SliceBuffer(buf, from, to) ==
    LET k == IF from < 0 THEN Max(BUF_FRAMES + from, 0) ELSE Min(from, BUF_FRAMES)
        f == IF to < 0 THEN Max(BUF_FRAMES + to, 0) ELSE Min(to, BUF_FRAMES)
    IN  [i \in 1..Max(f - k, 0) |-> buf[k + i - 1]]

BufferData(ch, data) ==
    [type |-> "buffer_data", voice |-> 0, phase |-> Zero, ch |-> ch, data |-> data]

\* the handler throws a TypeError on this message
Throws(msg) ==
    \/ msg.cmd \in VoiceCmds /\ msg.voice \notin VoiceIdx
    \/ msg.cmd \in {"buffer_clear_channel", "buffer_read"} /\ msg.ch \notin BufIdx
    \/ /\ msg.cmd = "buffer_load"
       /\ msg.ch \notin BufIdx
       /\ LoadLen(msg.data, ToSample(msg.start)) > 0

\* a handler whose reset also closes the polling gate
PollingAfter_ResetStops(polling, msg) ==
    IF msg.cmd = "poll_start_phase" THEN TRUE
    ELSE IF msg.cmd \in {"poll_stop_phase", "reset"} THEN FALSE
    ELSE polling

\* this.phasePolling after the command
PollingAfter(polling, msg) ==
    IF msg.cmd = "poll_start_phase" THEN TRUE
    ELSE IF msg.cmd = "poll_stop_phase" THEN FALSE
    ELSE polling

\* the processor receives the oldest posted command
HandleMessage ==
    /\ port # <<>>
    /\ port' = Tail(port)
    /\ LET msg == Head(port) IN
       IF Throws(msg)
       THEN /\ fault' = IF fault = "none" THEN "handler" ELSE fault
            /\ UNCHANGED <<voices, buffers, phasePolling, events, crossed>>
       ELSE
       /\ fault' = fault
       /\ voices' =
            IF msg.cmd \in VoiceCmds
            THEN [voices EXCEPT ![msg.voice] = VoiceAfter(@, msg)]
            ELSE IF msg.cmd = "reset" THEN [i \in VoiceIdx |-> ResetVoice(i)]
            ELSE voices
       /\ crossed' =
            IF msg.cmd \in VoiceCmds THEN [crossed EXCEPT ![msg.voice] = FALSE]
            ELSE IF msg.cmd = "reset" THEN [v \in VoiceIdx |-> FALSE]
            ELSE crossed
       /\ phasePolling' = PollingAfter(phasePolling, msg)
       /\ buffers' =
            CASE msg.cmd \in {"buffer_clear", "reset"} -> ClearAll(buffers)
              [] msg.cmd = "buffer_clear_channel" -> [buffers EXCEPT ![msg.ch] = ZeroBuffer]
              [] msg.cmd = "buffer_clear_region" ->
                    [b \in BufIdx |-> ClearRegion(buffers[b], msg.start, msg.dur)]
              [] msg.cmd = "buffer_load" /\ msg.ch \in BufIdx ->
                    [buffers EXCEPT
                       ![msg.ch] = LoadBuffer(@, ToSample(msg.start), msg.data)]
              [] OTHER -> buffers
       /\ events' =
            IF msg.cmd = "buffer_read"
            THEN Append(events,
                        BufferData(msg.ch,
                                   SliceBuffer(buffers[msg.ch], ToSample(msg.start),
                                               ToSample(msg.start) + ToSample(msg.dur))))
            ELSE events
    /\ UNCHANGED <<mix, wrote, tape, recPos, sent, blocks, clockVars, apiVars>>

----------------------------------------------------------------------------
(* The control API (src/lib/softcut.js) and scripts posting to the port *)

\* a command put in front of the commands already posted
Post_Front(q, msg) == <<msg>> \o q

\* workletNode.port.postMessage(msg): the command joins the port's queue
Post(q, msg) == Append(q, msg)

\* _send(msg): posted when the worklet node exists, dropped otherwise
Send(msg) == IF workletNode THEN Post(port, msg) ELSE port

\* state ? 1 : 0
Flag(x) == IF x # 0 THEN 1 ELSE 0

\* the message softcut.<fn>(voice, arg) sends: _sendVoice(cmd, voice, value)
SendVoice(fn, voice, arg) ==
    [Msg(fn) EXCEPT !.voice = voice - 1,
                    !.value = CASE fn \in {"enable", "play", "loop", "rec"} -> Flag(arg)
                                [] fn = "buffer" -> arg - 1
                                [] OTHER -> arg]

\* softcut.enable ... softcut.phase_quant
ApiVoice(fn, voice, arg) ==
    /\ sent' = sent + 1
    /\ port' = Send(SendVoice(fn, voice, arg))
    /\ callResult' = IF workletNode THEN "posted" ELSE "dropped"
    /\ UNCHANGED <<voices, buffers, phasePolling, fault, events, mix, wrote, crossed,
                   tape, recPos, blocks, clockVars, audioCtx, workletNode, callbackVars>>

\* softcut.buffer_clear, poll_start_phase, poll_stop_phase, reset
ApiPlain(fn) ==
    /\ sent' = sent + 1
    /\ port' = Send(Msg(fn))
    /\ callResult' = IF workletNode THEN "posted" ELSE "dropped"
    /\ _phaseCallback' = IF fn = "reset" THEN FALSE ELSE _phaseCallback
    /\ UNCHANGED <<voices, buffers, phasePolling, fault, events, mix, wrote, crossed,
                   tape, recPos, blocks, clockVars, audioCtx, workletNode, phaseCall,
                   _bufferReadResolve>>

\* softcut.buffer_clear_channel(ch)
ApiClearChannel(ch) ==
    /\ sent' = sent + 1
    /\ port' = Send([Msg("buffer_clear_channel") EXCEPT !.ch = ch - 1])
    /\ callResult' = IF workletNode THEN "posted" ELSE "dropped"
    /\ UNCHANGED <<voices, buffers, phasePolling, fault, events, mix, wrote, crossed,
                   tape, recPos, blocks, clockVars, audioCtx, workletNode, callbackVars>>

\* softcut.buffer_clear_region(start, dur)
ApiClearRegion(start, dur) ==
    /\ sent' = sent + 1
    /\ port' = Send([Msg("buffer_clear_region") EXCEPT !.start = start, !.dur = dur])
    /\ callResult' = IF workletNode THEN "posted" ELSE "dropped"
    /\ UNCHANGED <<voices, buffers, phasePolling, fault, events, mix, wrote, crossed,
                   tape, recPos, blocks, clockVars, audioCtx, workletNode, callbackVars>>

\* a script posts { cmd: "buffer_load", ch, start_dst, data } to softcut.node.port
PostLoad(ch, start, data) ==
    /\ sent' = sent + 1
    /\ port' = Send([Msg("buffer_load") EXCEPT !.ch = ch, !.start = start,
                 !.data = data])
    /\ callResult' = IF workletNode THEN "posted" ELSE "threw"
    /\ UNCHANGED <<voices, buffers, phasePolling, fault, events, mix, wrote, crossed,
                   tape, recPos, blocks, clockVars, audioCtx, workletNode, callbackVars>>

\* a script posts { cmd: "buffer_read", ch, start, dur } to softcut.node.port
PostRead(ch, start, dur) ==
    /\ sent' = sent + 1
    /\ port' = Send([Msg("buffer_read") EXCEPT !.ch = ch, !.start = start,
                 !.dur = dur])
    /\ callResult' = IF workletNode THEN "posted" ELSE "threw"
    /\ UNCHANGED <<voices, buffers, phasePolling, fault, events, mix, wrote, crossed,
                   tape, recPos, blocks, clockVars, audioCtx, workletNode, callbackVars>>

\* softcut.buffer_read_mono(file, 0, start_dst, -1, 1, ch_dst) with the decoded
\* samples data: throws when there is no AudioContext
ApiReadMono(ch_dst, start_dst, data) ==
    /\ sent' = sent + 1
    /\ port' = IF audioCtx
               THEN Send([Msg("buffer_load") EXCEPT !.ch = ch_dst - 1, !.start = start_dst,
                                                    !.data = data])
               ELSE port
    /\ callResult' = IF ~audioCtx THEN "threw"
                     ELSE IF workletNode THEN "posted" ELSE "dropped"
    /\ UNCHANGED <<voices, buffers, phasePolling, fault, events, mix, wrote, crossed,
                   tape, recPos, blocks, clockVars, audioCtx, workletNode, callbackVars>>

\* softcut.buffer_write_mono(filename, start, dur, ch): sends buffer_read and
\* awaits the reply
ApiWriteMono(start, dur, ch) ==
    /\ sent' = sent + 1
    /\ port' = Send([Msg("buffer_read") EXCEPT
                       !.ch = ch - 1, !.start = start,
                       !.dur = IF dur < 0 THEN BUF_DURATION * U ELSE dur])
    /\ callResult' = IF workletNode THEN "pending" ELSE "droppedPending"
    /\ _bufferReadResolve' = sent + 1
    /\ UNCHANGED <<voices, buffers, phasePolling, fault, events, mix, wrote, crossed,
                   tape, recPos, blocks, clockVars, audioCtx, workletNode,
                   _phaseCallback, phaseCall>>

\* softcut.event_phase(fn)
EventPhase ==
    /\ ~_phaseCallback
    /\ _phaseCallback' = TRUE
    /\ UNCHANGED <<engineVars, clockVars, audioCtx, workletNode, callResult, phaseCall,
                   _bufferReadResolve>>

\* voice number the port handler passes to the phase callback, without the
\* translation back to the API's numbering
CallbackVoice_Raw(msg) == msg.voice

\* voice number the port handler passes to the phase callback
CallbackVoice(msg) == msg.voice + 1

\* workletNode.port.onmessage: the oldest message of the processor arrives
OnMessage ==
    /\ workletNode
    /\ events # <<>>
    /\ events' = Tail(events)
    /\ LET msg == Head(events) IN
       IF msg.type = "phase" /\ _phaseCallback
       THEN /\ phaseCall' = <<CallbackVoice(msg), msg.phase>>
            /\ UNCHANGED _bufferReadResolve
       ELSE IF msg.type = "buffer_data" /\ _bufferReadResolve # 0
       THEN /\ _bufferReadResolve' = 0
            /\ UNCHANGED phaseCall
       ELSE UNCHANGED <<phaseCall, _bufferReadResolve>>
    /\ UNCHANGED <<voices, buffers, phasePolling, fault, port, mix, wrote, crossed, tape,
                   recPos, sent, blocks, clockVars, audioCtx, workletNode, callResult,
                   _phaseCallback>>

\* softcut.init up to its first await: the AudioContext is taken or created
InitContext ==
    /\ ~workletNode
    /\ audioCtx' = TRUE
    /\ UNCHANGED <<engineVars, clockVars, workletNode, callResult, callbackVars>>

\* softcut.init after addModule: the worklet node is created and connected
InitNode ==
    /\ audioCtx /\ ~workletNode
    /\ workletNode' = TRUE
    /\ UNCHANGED <<engineVars, clockVars, audioCtx, callResult, callbackVars>>

----------------------------------------------------------------------------
(* Specifications *)

\* the clock module as loaded and a processor as constructed
Init == InitClock /\ InitEngine

\* Beat tracking alone: tempo and transport calls as time passes.
NextBeats ==
    \/ \E d \in TickSteps : Tick(d)
    \/ \E bpm \in TempoArgs : SetTempo(bpm)
    \/ Start
    \/ Stop

SpecBeats == Init /\ [][NextBeats]_vars

\* Tempo and its change hook: tempo and transport calls, the hook being set,
\* and clock.reset(), as time passes.
NextTempo ==
    \/ \E d \in TickSteps : Tick(d)
    \/ \E bpm \in TempoArgs : SetTempo(bpm)
    \/ Start
    \/ Stop
    \/ SetHandler
    \/ \E h \in {"start", "stop"} : SetTransport(h)
    \/ Reset

SpecTempo == Init /\ [][NextTempo]_vars

\* The task runner: run, cancel, sleep, sync, foreign awaits; the transport
\* may be started.
NextTasks ==
    \/ \E d \in TickSteps \cup {wait[t].target - now : t \in Ids} : Tick(d)
    \/ Start
    \/ \E kind \in {"async", "syncThrow"} : Run(kind)
    \/ \E id \in Ids : Cancel(id)
    \/ \E d \in SleepArgs : TaskSleep(d)
    \/ \E b \in BeatArgs, o \in OffsetArgs : TaskSync(b, o)
    \/ TaskAwait
    \/ \E how \in {"returned", "threw"} : TaskEnd(how)
    \/ \E t \in Ids : WakeTimer(t)
    \/ \E t \in Ids : ExternalResolve(t)
    \/ JobSleepOk
    \/ JobSleepErr
    \/ JobUser
    \/ JobUserErr
    \/ JobSettle

SpecTasks == Init /\ [][NextTasks]_vars

\* Tasks that sleep, await and end, hooks being set, and clock.cleanup().
NextCleanup ==
    \/ \E d \in TickSteps \cup {wait[t].target - now : t \in Ids} : Tick(d)
    \/ Run("async")
    \/ \E d \in SleepArgs : TaskSleep(d)
    \/ TaskEnd("returned")
    \/ \E t \in Ids : WakeTimer(t)
    \/ JobSleepOk
    \/ JobSleepErr
    \/ JobUser
    \/ JobUserErr
    \/ JobSettle
    \/ SetHandler
    \/ \E h \in {"start", "stop"} : SetTransport(h)
    \/ Cleanup

SpecCleanup == Init /\ [][NextCleanup]_vars

\* Tasks that sync to the beat grid while control code changes tempo and
\* transport.
NextSync ==
    \/ \E d \in TickSteps \cup {wait[t].target - now : t \in Ids} : Tick(d)
    \/ \E bpm \in SyncTempoArgs : SetTempo(bpm)
    \/ Start
    \/ Stop
    \/ Run("async")
    \/ \E b \in BeatArgs, o \in OffsetArgs : TaskSync(b, o)
    \/ TaskEnd("returned")
    \/ \E t \in Ids : WakeTimer(t)
    \/ JobSleepOk
    \/ JobUser
    \/ JobSettle

SpecSync == Init /\ [][NextSync]_vars
\* The engine from construction: control API calls, scripts posting buffer
\* commands, command delivery and audio blocks.
VoiceArgs == {0, 1}
ArgsOf(fn) ==
    CASE fn \in {"enable", "play", "loop", "rec"} -> {0, 1}
      [] fn = "buffer" -> {1, 2, 3}
      [] fn = "rate" -> {-U, U \div 2}
      [] fn = "level" -> {0, 2 * U}
      [] fn = "pan" -> {-U, U}
      [] fn = "position" -> {U}
      [] fn = "loop_start" -> {U \div 2}
      [] fn = "loop_end" -> {U}
      [] fn = "fade_time" -> {0}
      [] fn = "level_slew_time" -> {U}
      [] fn \in {"rec_level", "pre_level"} -> {U \div 2}
      [] fn = "phase_quant" -> {U \div 2}
PlainCalls == {"buffer_clear", "poll_start_phase", "poll_stop_phase", "reset"}
ChArgs == {1, 3}
EngineInputs == {[i \in 1..BlockSize |-> IF i = 1 THEN H(50) ELSE One]}
LoadData == <<One, H(-50)>>

NextEngine ==
    \/ \E fn \in VoiceCmds, voice \in VoiceArgs : \E arg \in ArgsOf(fn) :
          sent < MaxCmds /\ ApiVoice(fn, voice, arg)
    \/ \E fn \in PlainCalls : sent < MaxCmds /\ ApiPlain(fn)
    \/ \E ch \in ChArgs : sent < MaxCmds /\ ApiClearChannel(ch)
    \/ sent < MaxCmds /\ ApiClearRegion(U \div 2, U)
    \/ \E ch \in {0, 2} : sent < MaxCmds /\ PostLoad(ch, U, LoadData)
    \/ \E ch \in {0, 2} : sent < MaxCmds /\ PostRead(ch, U, U)
    \/ HandleMessage
    \/ \E in \in EngineInputs : blocks < MaxBlocks /\ Process(in)

SpecEngine == Init /\ [][NextEngine]_vars

\* A voice configured by a sequence of <<cmd, value>> voice commands.
RECURSIVE Configured(_, _)
Configured(vo, cmds) ==
    IF cmds = <<>> THEN vo
    ELSE Configured(VoiceAfter(vo, [Msg(cmds[1][1]) EXCEPT !.value = cmds[1][2]]),
                    Tail(cmds))

\* Looping playback: voice 0 has been set up as a playing loop and the audio
\* thread then runs frame by frame with no further command.
MaxLoopFrames == 8
LoopRates == {-250, -100, -50, 50, 100, 250}
LoopStarts == {0, 50}
LoopEnds == {50, 100, 150}
LoopPositions == {0, 50, 125}
LoopFades == {0, 1}

LoopVoice(rate, ls, le, pos, fade) ==
    Configured(DefaultVoice(0),
               <<<<"enable", 1>>, <<"loop", 1>>, <<"rate", rate>>, <<"loop_start", ls>>,
                 <<"loop_end", le>>, <<"fade_time", fade>>, <<"position", pos>>,
                 <<"play", 1>>>>)

InitLoop ==
    /\ \E rate \in LoopRates, ls \in LoopStarts, le \in LoopEnds,
          pos \in LoopPositions, fade \in LoopFades :
          voices = [i \in VoiceIdx |->
                      IF i = 0 THEN LoopVoice(rate, ls, le, pos, fade)
                      ELSE DefaultVoice(i)]
    /\ buffers = [b \in BufIdx |-> ZeroBuffer]
    /\ phasePolling = FALSE
    /\ fault = "none"
    /\ audioCtx = TRUE
    /\ workletNode = TRUE
    /\ callResult = "none"
    /\ _phaseCallback = FALSE
    /\ phaseCall = <<>>
    /\ _bufferReadResolve = 0
    /\ port = <<>>
    /\ events = <<>>
    /\ mix = NoMix
    /\ wrote = NoWrites
    /\ crossed = [v \in VoiceIdx |-> FALSE]
    /\ tape = <<>>
    /\ recPos = 0
    /\ sent = 0
    /\ blocks = 0

NextLoop == blocks < MaxLoopFrames /\ Process(<<H(50)>>)

InitLooping == InitClock /\ InitLoop

SpecLoop == InitLooping /\ [][NextLoop]_vars

\* Record and read back: voice 0 has been set up to record from position
\* recPos over earlier buffer content; the script then switches rec off,
\* resets the position and reads the region, while audio blocks keep coming.
MaxRecBlocks == 3
RecPositions == {0, 50, 100, 200}
RecInputs == {[i \in 1..BlockSize |-> IF i % 2 = 1 THEN H(50) ELSE H(-25)],
              [i \in 1..BlockSize |-> IF i % 2 = 1 THEN One ELSE H(50)]}
ReadDurs == {100, 200}
OldContent == {<<>>, <<H(25), H(25), H(25), H(25)>>}

RecVoice(pos) ==
    Configured(DefaultVoice(0),
               <<<<"enable", 1>>, <<"rec_level", U>>, <<"pre_level", 0>>, <<"rate", U>>,
                 <<"loop", 0>>, <<"position", pos>>, <<"rec", 1>>, <<"play", 1>>>>)

InitRoundTrip ==
    /\ \E pos \in RecPositions :
          /\ recPos = pos
          /\ voices = [i \in VoiceIdx |-> IF i = 0 THEN RecVoice(pos) ELSE DefaultVoice(i)]
    /\ \E old \in OldContent :
          buffers = [b \in BufIdx |-> LoadBuffer(ZeroBuffer, 0, old)]
    /\ phasePolling = FALSE
    /\ fault = "none"
    /\ audioCtx = TRUE
    /\ workletNode = TRUE
    /\ callResult = "none"
    /\ _phaseCallback = FALSE
    /\ phaseCall = <<>>
    /\ _bufferReadResolve = 0
    /\ port = <<>>
    /\ events = <<>>
    /\ mix = NoMix
    /\ wrote = NoWrites
    /\ crossed = [v \in VoiceIdx |-> FALSE]
    /\ tape = <<>>
    /\ sent = 0
    /\ blocks = 0

NextRoundTrip ==
    \/ \E in \in RecInputs : blocks < MaxRecBlocks /\ Process(in)
    \/ sent = 0 /\ tape # <<>> /\ ApiVoice("rec", 1, 0)
    \/ sent = 1 /\ ApiVoice("position", 1, recPos)
    \/ \E dur \in ReadDurs : sent = 2 /\ PostRead(0, recPos, dur)
    \/ HandleMessage

InitRecording == InitClock /\ InitRoundTrip

SpecRoundTrip == InitRecording /\ [][NextRoundTrip]_vars

\* Overdub: voice 0 has been set up to record one pass from position recPos
\* over the content PassContent, with levels and rate drawn from small sets;
\* audio blocks follow with no further command.
PassLevels == {50, U}
PassPreLevels == {0, 50}
PassRates == {-U, U \div 2, U, U + U \div 2, 2 * U}
PassPositions == {0, 50, 100}
PassContent == [i \in FrameIdx |-> H(10 * (i + 1))]

PassVoice(a, b, rate, pos) ==
    Configured(DefaultVoice(0),
               <<<<"enable", 1>>, <<"rec_level", a>>, <<"pre_level", b>>, <<"rate", rate>>,
                 <<"loop", 0>>, <<"position", pos>>, <<"rec", 1>>, <<"play", 1>>>>)

InitOverdub ==
    /\ \E a \in PassLevels, b \in PassPreLevels, rate \in PassRates,
          pos \in PassPositions :
          /\ recPos = pos
          /\ voices = [i \in VoiceIdx |->
                         IF i = 0 THEN PassVoice(a, b, rate, pos) ELSE DefaultVoice(i)]
    /\ buffers = [b \in BufIdx |-> PassContent]
    /\ phasePolling = FALSE
    /\ fault = "none"
    /\ audioCtx = TRUE
    /\ workletNode = TRUE
    /\ callResult = "none"
    /\ _phaseCallback = FALSE
    /\ phaseCall = <<>>
    /\ _bufferReadResolve = 0
    /\ port = <<>>
    /\ events = <<>>
    /\ mix = NoMix
    /\ wrote = NoWrites
    /\ crossed = [v \in VoiceIdx |-> FALSE]
    /\ tape = <<>>
    /\ sent = 0
    /\ blocks = 0

InitPass == InitClock /\ InitOverdub

NextOverdub == \E in \in RecInputs : blocks < MaxRecBlocks /\ Process(in)

SpecOverdub == InitPass /\ [][NextOverdub]_vars

\* Mixing: voice 0 plays (and may overdub) buffer 0 at a level of at most 1,
\* voice 1 may play the same buffer; the buffer was loaded with samples in
\* [-1, 1] and the input samples are in [-1, 1].
MixRates == {0, U \div 2, U}
MixPreLevels == {0, U}
MixLevels == {U \div 2, U}
MixPans == {-U, 0, U}
MixFlags == {0, 1}
MixContent == <<One, H(-50), H(50), One>>
MixInputs == {[i \in 1..BlockSize |-> One], [i \in 1..BlockSize |-> H(-50)]}

MixVoice(i, rate, pre, level, pan, rec, on) ==
    Configured(DefaultVoice(i),
               <<<<"buffer", 0>>, <<"rate", rate>>, <<"pre_level", pre>>,
                 <<"level", level>>, <<"pan", pan>>, <<"rec", rec>>, <<"play", 1>>,
                 <<"enable", on>>>>)

InitMix ==
    /\ \E rate \in MixRates, pre \in MixPreLevels, level \in MixLevels, pan \in MixPans,
          rec \in MixFlags, on \in MixFlags :
          voices = [i \in VoiceIdx |->
                      CASE i = 0 -> MixVoice(0, rate, pre, level, pan, rec, 1)
                        [] i = 1 -> MixVoice(1, U, 0, U, pan, 0, on)
                        [] OTHER -> DefaultVoice(i)]
    /\ buffers = [b \in BufIdx |-> LoadBuffer(ZeroBuffer, 0, MixContent)]
    /\ phasePolling = FALSE
    /\ fault = "none"
    /\ audioCtx = TRUE
    /\ workletNode = TRUE
    /\ callResult = "none"
    /\ _phaseCallback = FALSE
    /\ phaseCall = <<>>
    /\ _bufferReadResolve = 0
    /\ port = <<>>
    /\ events = <<>>
    /\ mix = NoMix
    /\ wrote = NoWrites
    /\ crossed = [v \in VoiceIdx |-> FALSE]
    /\ tape = <<>>
    /\ recPos = 0
    /\ sent = 0
    /\ blocks = 0

InitMixing == InitClock /\ InitMix

NextMix == \E in \in MixInputs : blocks < MaxRecBlocks /\ Process(in)

SpecMix == InitMixing /\ [][NextMix]_vars

\* Phase reporting: polling is on, voice 0 loops over the whole buffer at a
\* constant rate with a phase quantum; the audio thread runs frame by frame.
ReportRates == {-U, -(U \div 2), U \div 2, U, 2 * U}
ReportQuanta == {25, 50, 100}

ReportVoice(rate, q) ==
    Configured(DefaultVoice(0),
               <<<<"enable", 1>>, <<"loop", 1>>, <<"rate", rate>>, <<"phase_quant", q>>,
                 <<"play", 1>>>>)

InitReport ==
    /\ \E rate \in ReportRates, q \in ReportQuanta :
          voices = [i \in VoiceIdx |->
                      IF i = 0 THEN ReportVoice(rate, q) ELSE DefaultVoice(i)]
    /\ buffers = [b \in BufIdx |-> ZeroBuffer]
    /\ phasePolling = TRUE
    /\ fault = "none"
    /\ audioCtx = TRUE
    /\ workletNode = TRUE
    /\ callResult = "none"
    /\ _phaseCallback = FALSE
    /\ phaseCall = <<>>
    /\ _bufferReadResolve = 0
    /\ port = <<>>
    /\ events = <<>>
    /\ mix = NoMix
    /\ wrote = NoWrites
    /\ crossed = [v \in VoiceIdx |-> FALSE]
    /\ tape = <<>>
    /\ recPos = 0
    /\ sent = 0
    /\ blocks = 0

InitReporting == InitClock /\ InitReport

NextReport == blocks < MaxLoopFrames /\ Process(<<Zero>>)

SpecReport == InitReporting /\ [][NextReport]_vars

\* Clear then read: both buffers hold loaded content and voice 0 plays buffer
\* 0, with rec on or off; the script calls buffer_clear and then posts a
\* buffer_read, while audio blocks keep coming.
ClearReadStarts == {0, U}

ClearVoice(rec) ==
    Configured(DefaultVoice(0),
               <<<<"enable", 1>>, <<"position", 0>>, <<"rec", rec>>, <<"play", 1>>>>)

InitClear ==
    /\ \E rec \in MixFlags :
          voices = [i \in VoiceIdx |-> IF i = 0 THEN ClearVoice(rec) ELSE DefaultVoice(i)]
    /\ buffers = [b \in BufIdx |-> LoadBuffer(ZeroBuffer, 0, MixContent)]
    /\ phasePolling = FALSE
    /\ fault = "none"
    /\ audioCtx = TRUE
    /\ workletNode = TRUE
    /\ callResult = "none"
    /\ _phaseCallback = FALSE
    /\ phaseCall = <<>>
    /\ _bufferReadResolve = 0
    /\ port = <<>>
    /\ events = <<>>
    /\ mix = NoMix
    /\ wrote = NoWrites
    /\ crossed = [v \in VoiceIdx |-> FALSE]
    /\ tape = <<>>
    /\ recPos = 0
    /\ sent = 0
    /\ blocks = 0

InitClearing == InitClock /\ InitClear

NextClear ==
    \/ sent = 0 /\ ApiPlain("buffer_clear")
    \/ \E ch \in BufIdx, start \in ClearReadStarts, dur \in ReadDurs :
          sent = 1 /\ PostRead(ch, start, dur)
    \/ HandleMessage
    \/ \E in \in MixInputs : blocks < MaxBlocks /\ Process(in)

SpecClear == InitClearing /\ [][NextClear]_vars

\* The control API from module load: calls made before, during and after
\* softcut.init.
ApiFns == {"enable", "play", "level"}

InitApi ==
    /\ voices = [i \in VoiceIdx |-> DefaultVoice(i)]
    /\ buffers = [b \in BufIdx |-> ZeroBuffer]
    /\ phasePolling = FALSE
    /\ fault = "none"
    /\ audioCtx = FALSE
    /\ workletNode = FALSE
    /\ callResult = "none"
    /\ _phaseCallback = FALSE
    /\ phaseCall = <<>>
    /\ _bufferReadResolve = 0
    /\ port = <<>>
    /\ events = <<>>
    /\ mix = NoMix
    /\ wrote = NoWrites
    /\ crossed = [v \in VoiceIdx |-> FALSE]
    /\ tape = <<>>
    /\ recPos = 0
    /\ sent = 0
    /\ blocks = 0

InitLoaded == InitClock /\ InitApi

NextApi ==
    \/ InitContext
    \/ InitNode
    \/ \E fn \in ApiFns : \E arg \in ArgsOf(fn) : sent < MaxCmds /\ ApiVoice(fn, 1, arg)
    \/ \E fn \in PlainCalls : sent < MaxCmds /\ ApiPlain(fn)
    \/ sent < MaxCmds /\ ApiClearChannel(1)
    \/ sent < MaxCmds /\ ApiClearRegion(U \div 2, U)
    \/ sent < MaxCmds /\ PostLoad(0, U, LoadData)
    \/ sent < MaxCmds /\ PostRead(0, U, U)
    \/ sent < MaxCmds /\ ApiReadMono(1, 0, LoadData)
    \/ \E dur \in {-1, U} : sent < MaxCmds /\ ApiWriteMono(0, dur, 1)
    \/ HandleMessage
    \/ \E in \in EngineInputs : workletNode /\ blocks < MaxBlocks /\ Process(in)

SpecApi == InitLoaded /\ [][NextApi]_vars

----------------------------------------------------------------------------
(* Claims about the clock *)

\* A promise job that delivers the AbortError to task t is queued
AbortQueued(t) ==
    \E i \in 1..Len(mq) : mq[i][2] = t /\ mq[i][1] \in {"sleepErr", "userErr", "settle"}

\* C1: for every task suspended in sleep or sync when cancel(id) is called,
\* the suspension fails with the AbortError (it does not stay pending and
\* does not resolve), the task runs no user code afterwards, and id is not
\* in the registry.
C1_CancelTerminates ==
    \A t \in cancelledSusp :
        /\ t \notin _coroutines
        /\ t \notin ranAfter
        /\ \/ pc[t] = "done" /\ outcome[t] = "aborted"
           \/ pc[t] = "queued" /\ AbortQueued(t)

\* C2: the registry never holds the id of a task that has terminated
\* (returned, thrown synchronously or asynchronously, or been cancelled).
C2_TerminatedNotRegistered ==
    \A t \in Ids : pc[t] = "done" => t \notin _coroutines

\* |x - offset| is within 0.01 beat of a multiple of beat
Aligned(x, beat, offset) ==
    LET r == (x - offset) % beat IN r <= BEAT \div 100 \/ beat - r <= BEAT \div 100

\* C3: whenever an awaited sync(b, offset) returns normally, beats() is
\* within 0.01 of a multiple of b plus offset, whatever set_tempo, start and
\* stop calls were made during the wait.
C3_SyncAligned ==
    \A t \in Ids :
        (pc[t] = "resumed" /\ wait[t].kind = "sync")
            => Aligned(getBeats, wait[t].beat, wait[t].offset)

\* C4: beats() never decreases across set_tempo, start, stop and the passage
\* of time, and a set_tempo call leaves beats() exactly where it was.
C4_BeatsMonotonic ==
    [][/\ getBeats' >= getBeats
       /\ (\E bpm \in TempoArgs : SetTempo(bpm)) => getBeats' = getBeats]_vars

\* set_tempo has rebased a running clock that had already advanced, and
\* time has passed since
C4_Witness ==
    /\ _running
    /\ _tempo = 60
    /\ _refBeats > 0
    /\ _refTime > 0
    /\ now > _refTime

----------------------------------------------------------------------------
(* Claims about the softcut engine *)

\* voice 0 of a looping-playback behaviour is an enabled playing loop
LoopCase(vo) == vo.enabled # 0 /\ vo.playing # 0 /\ Looping(vo)

InLoop(vo) == vo.phase >= loopStartSamp(vo) /\ vo.phase < loopEndSamp(vo)

\* C5 as stated: for an enabled, playing voice with loop on, rate > 0 and
\* fade_time = 0, once an advance has taken phase across loop_end, phase lies in
\* [loop_start, loop_end) after every later frame, whatever the rate.
C5_ForwardLoopClosed_AnyRate ==
    \A v \in VoiceIdx :
        (LoopCase(voices[v]) /\ voices[v].rate > 0 /\ voices[v].fade_time = 0
            /\ crossed[v])
        => InLoop(voices[v])

\* C5: for an enabled, playing voice with loop on, rate > 0, fade_time = 0 and a
\* rate of at most the loop length (loop_end - loop_start in samples) per frame,
\* once an advance has taken phase across loop_end, phase lies in
\* [loop_start, loop_end) after every later frame while no command changes the
\* voice.
C5_ForwardLoopClosed ==
    \A v \in VoiceIdx :
        (LoopCase(voices[v]) /\ voices[v].rate > 0 /\ voices[v].fade_time = 0
            /\ voices[v].rate <= loopLen(voices[v]) /\ crossed[v])
        => InLoop(voices[v])

\* a voice at rate 1/2 sample per frame that has wrapped a one-sample loop
\* twice
C5_Witness ==
    /\ LoopCase(voices[0]) /\ crossed[0] /\ voices[0].fade_time = 0
    /\ voices[0].rate = U \div 2
    /\ loopLen(voices[0]) = U
    /\ blocks >= 5
    /\ InLoop(voices[0])

\* C6 as stated: for an enabled, playing voice with loop on and rate < 0, once
\* an advance has taken phase below loop_start, phase lies in
\* [loop_start, loop_end) after every later frame, whatever the rate.
C6_ReverseLoopClosed_AnyRate ==
    \A v \in VoiceIdx :
        (LoopCase(voices[v]) /\ voices[v].rate < 0 /\ crossed[v])
        => InLoop(voices[v])

\* C6: for an enabled, playing voice with loop on, rate < 0 and |rate| of at
\* most the loop length per frame, a frame whose advance takes phase below
\* loop_start leaves phase = loop_end - (loop_start - phase), and once that has
\* happened phase lies in [loop_start, loop_end) after every later frame while
\* no command changes the voice.
C6_ReverseLoopClosed ==
    [][\A v \in VoiceIdx :
          (/\ blocks' = blocks + 1
           /\ LoopCase(voices[v]) /\ voices[v].rate < 0
           /\ -voices[v].rate <= loopLen(voices[v]))
          => /\ (voices[v].phase + voices[v].rate < loopStartSamp(voices[v]))
                  => voices'[v].phase =
                        loopEndSamp(voices[v])
                        - (loopStartSamp(voices[v]) - (voices[v].phase + voices[v].rate))
             /\ crossed'[v] => InLoop(voices'[v])]_vars

\* a voice at rate -1/2 that has wrapped a one-sample loop downwards twice
C6_Witness ==
    /\ LoopCase(voices[0]) /\ crossed[0]
    /\ voices[0].rate = -(U \div 2)
    /\ loopLen(voices[0]) = U
    /\ blocks >= 5
    /\ InLoop(voices[0])

Silent(m) == \A i \in DOMAIN m : m[i] = <<Zero, Zero>>

\* the events a step adds are not events of voice v of the given types
NoNewEvent(v, types) ==
    \A i \in (Len(events) + 1)..Len(events') :
        ~(events'[i].type \in types /\ events'[i].voice = v)

\* C7: for every voice with playing = false, a process block does not advance
\* its phase, adds nothing to either output channel, writes no buffer sample
\* even when rec is on, and emits no Phase event.
C7_NotPlayingInert ==
    [][blocks' = blocks + 1 =>
         /\ \A v \in VoiceIdx :
               voices[v].playing = 0 =>
                  /\ voices'[v].phase = voices[v].phase
                  /\ Silent(mix'[v])
                  /\ wrote'[v] = {}
                  /\ NoNewEvent(v, {"phase"})
         /\ (\A v \in VoiceIdx : voices[v].playing = 0) => buffers' = buffers]_vars

\* an enabled voice with rec on and playing off, the only voice that was ever
\* switched to record, after a block with non-zero input was offered to it
C7_Witness ==
    /\ tape # <<>> /\ tape[1] # Zero
    /\ sent = 2 /\ port = <<>>
    /\ \E v \in VoiceIdx :
          /\ voices[v].enabled = 1 /\ voices[v].rec = 1 /\ voices[v].playing = 0
          /\ voices[v].phase = 0
          /\ Len(mix[v]) = BlockSize
    /\ \A b \in BufIdx : buffers[b] = ZeroBuffer

\* C8: for every voice with enabled = false, a process block leaves every
\* attribute of the voice unchanged, adds nothing to the outputs, writes no
\* buffer sample and emits no event, whatever its playing and rec flags.
C8_DisabledUntouched ==
    [][blocks' = blocks + 1 =>
         /\ \A v \in VoiceIdx :
               voices[v].enabled = 0 =>
                  /\ voices'[v] = voices[v]
                  /\ Silent(mix'[v])
                  /\ wrote'[v] = {}
                  /\ NoNewEvent(v, {"phase", "buffer_data"})
         /\ (\A v \in VoiceIdx : voices[v].enabled = 0) =>
               /\ buffers' = buffers
               /\ events' = events]_vars

\* a disabled voice with playing and rec on, after both blocks, its phase and
\* the buffers as constructed
C8_Witness ==
    /\ blocks = MaxBlocks /\ port = <<>> /\ sent >= 2
    /\ \E v \in VoiceIdx :
          /\ voices[v].enabled = 0 /\ voices[v].playing = 1 /\ voices[v].rec = 1
          /\ voices[v].phase = 0
          /\ Len(mix[v]) = BlockSize /\ Silent(mix[v])
    /\ \A b \in BufIdx : buffers[b] = ZeroBuffer

\* C9: for every sequence of commands the control API can post and process
\* blocks, the engine never faults: neither the message handler nor process()
\* throws.
C9_NeverFaults == fault = "none"

\* C10: with rec_level = 1, pre_level = 0, rate = 1 and loop off, after
\* recording the input samples of tape from position recPos, the buffer holds
\* input sample k at index p + k for every recorded k (p the sample index of
\* recPos), and a read of the region from recPos after rec off and a position
\* reset returns those samples.
C10_RecordRoundTrip ==
    /\ \A k \in 1..Len(tape) :
          ToSample(recPos) + k - 1 < BUF_FRAMES
             => buffers[0][ToSample(recPos) + k - 1] = tape[k]
    /\ \A i \in 1..Len(events) :
          events[i].type = "buffer_data" =>
             \A k \in 1..Min(Len(events[i].data), Len(tape)) :
                events[i].data[k] = tape[k]

\* four samples were recorded over non-zero content from sample 1 on, rec was
\* switched off, the position reset, and the region of four samples read back
C10_Witness ==
    /\ Len(tape) = 4
    /\ recPos = 50
    /\ sent = 3 /\ port = <<>>
    /\ voices[0].rec = 0
    /\ voices[0].phase = recPos * SAMPLE_RATE
    /\ buffers[1][0] = H(25)
    /\ Len(events) = 1 /\ Len(events[1].data) = 4
    /\ events[1].data = tape

\* the buffer index the head of voice 0 is at in frame k of a pass that began
\* at recPos
PassIdx(k) == (recPos * SAMPLE_RATE + (k - 1) * voices[0].rate) \div U

PassFrames == {k \in 1..Len(tape) : PassIdx(k) \in FrameIdx}

\* index i holds a * (an input sample offered at i) + b * (content before the pass)
Overdubbed(i) ==
    \E k \in PassFrames :
        /\ PassIdx(k) = i
        /\ buffers[0][i] = RAdd(RMul(voices[0].rec_level, tape[k]),
                                RMul(voices[0].pre_level, PassContent[i]))

\* C11 as stated: for a recording voice with rec_level = a and pre_level = b,
\* at any rate, every index the head has visited in the pass holds
\* a * input[i] + b * prev_buffer[i].
C11_OverdubLinear_AnyRate ==
    \A k \in PassFrames : Overdubbed(PassIdx(k))

\* C11: for a recording voice with rec_level = a, pre_level = b and |rate| >= 1
\* sample per frame, no index is written twice in a pass and every index the
\* head has visited holds a * input[i] + b * prev_buffer[i]; the indices not
\* visited keep their content.
C11_OverdubLinear ==
    (voices[0].rate >= U \/ voices[0].rate <= -U) =>
        /\ \A k \in PassFrames : Overdubbed(PassIdx(k))
        /\ \A j, k \in PassFrames : j # k => PassIdx(j) # PassIdx(k)
        /\ \A i \in FrameIdx :
              (\A k \in PassFrames : PassIdx(k) # i) => buffers[0][i] = PassContent[i]

\* four frames recorded at rate 3/2 with rec_level 1/2 over half of the old
\* content
C11_Witness ==
    /\ Len(tape) = 4
    /\ voices[0].rate = U + U \div 2
    /\ voices[0].rec_level = H(50) /\ voices[0].pre_level = H(50)
    /\ recPos = 0
    /\ buffers[0][3] = RAdd(RMul(H(50), tape[3]), RMul(H(50), PassContent[3]))
    /\ buffers[0][2] = PassContent[2]

\* the output sample of frame i on channel ch (1 left, 2 right): the sum of the
\* voices' contributions from voice v on
RECURSIVE OutSum(_, _, _)
OutSum(v, i, ch) ==
    IF v >= NUM_VOICES THEN Zero
    ELSE RAdd(IF i \in DOMAIN mix[v] THEN mix[v][i][ch] ELSE Zero, OutSum(v + 1, i, ch))

EnabledCount == Cardinality({v \in VoiceIdx : voices[v].enabled # 0})

\* C12: for input samples in [-1, 1] and every voice level <= 1, each output
\* sample of a block satisfies |outL[i]| <= N and |outR[i]| <= N, N the number of
\* enabled voices.
C12_OutputBounded ==
    (\A v \in VoiceIdx : RLe(voices[v].level, One)) =>
        \A i \in 1..BlockSize, ch \in {1, 2} :
            RLe(RAbs(OutSum(0, i, ch)), <<EnabledCount, 1>>)

\* the Phase events of voice v received so far
PhaseCount(v) ==
    Cardinality({i \in 1..Len(events) : events[i].type = "phase" /\ events[i].voice = v})

\* C13: with polling on, phase_quant = q > 0 and a constant rate r on a playing
\* voice, after F one-frame blocks the number of Phase events is
\* floor(|r| * F / (q * sample_rate)) plus or minus 1, and phase_accum is below
\* one quantum.
C13_PhaseCadence ==
    \A v \in VoiceIdx :
        (phasePolling /\ voices[v].enabled # 0 /\ voices[v].playing # 0
            /\ voices[v].phase_quant > 0)
        => /\ voices[v].phase_accum < voices[v].phase_quant * SAMPLE_RATE
           /\ Abs(PhaseCount(v)
                  - (Abs(voices[v].rate) * blocks)
                       \div (voices[v].phase_quant * SAMPLE_RATE)) <= 1

\* the voices and buffers after the command msg has been handled
Applied(msg) ==
    IF Throws(msg) THEN <<voices, buffers>>
    ELSE <<IF msg.cmd \in VoiceCmds
           THEN [voices EXCEPT ![msg.voice] = VoiceAfter(@, msg)]
           ELSE IF msg.cmd = "reset" THEN [i \in VoiceIdx |-> ResetVoice(i)]
           ELSE voices,
           CASE msg.cmd \in {"buffer_clear", "reset"} -> ClearAll(buffers)
             [] msg.cmd = "buffer_clear_channel" -> [buffers EXCEPT ![msg.ch] = ZeroBuffer]
             [] msg.cmd = "buffer_clear_region" ->
                   [b \in BufIdx |-> ClearRegion(buffers[b], msg.start, msg.dur)]
             [] msg.cmd = "buffer_load" /\ msg.ch \in BufIdx ->
                   [buffers EXCEPT ![msg.ch] = LoadBuffer(@, ToSample(msg.start), msg.data)]
             [] OTHER -> buffers>>

\* C14: commands are applied in submission order, each one atomically between
\* process blocks: a call appends its command behind those already posted and
\* changes no engine state; the engine takes the oldest posted command and
\* applies it whole, outside any block; a block takes no command and starts
\* from the state the delivered commands left.
C14_CommandsInOrder ==
    [][/\ sent' # sent =>
             /\ Len(port') = Len(port) + 1
             /\ SubSeq(port', 1, Len(port)) = port
             /\ voices' = voices /\ buffers' = buffers /\ blocks' = blocks
       /\ (sent' = sent /\ port' # port) =>
             /\ port' = Tail(port)
             /\ <<voices', buffers'>> = Applied(Head(port))
             /\ blocks' = blocks
       /\ blocks' # blocks => port' = port /\ sent' = sent
       /\ (voices' # voices \/ buffers' # buffers) =>
             (blocks' # blocks \/ port' = Tail(port))]_vars

\* the first of two posted commands has been applied, a block has run on its
\* effect, and the second command is still waiting
C14_Witness ==
    /\ sent = 2 /\ Len(port) = 1 /\ blocks = 1
    /\ port[1].cmd = "rate"
    /\ voices[0].playing = 1 /\ voices[0].rate = U
    /\ Len(mix[0]) = BlockSize

AllZero(data) == \A k \in 1..Len(data) : data[k] = Zero

\* C15 as stated: a buffer_read submitted after a buffer_clear, with no
\* buffer_load between them, returns data that is all zeros in every
\* interleaving of the two commands with process blocks.
C15_ReadAfterClearZero_Always ==
    \A i \in 1..Len(events) : events[i].type = "buffer_data" => AllZero(events[i].data)

\* C15: while no voice is recording, a buffer_read submitted after a
\* buffer_clear, with no buffer_load between them, returns data that is all
\* zeros in every interleaving of the two commands with process blocks.
C15_ReadAfterClearZero ==
    (\A v \in VoiceIdx : voices[v].rec = 0) =>
        \A i \in 1..Len(events) : events[i].type = "buffer_data" => AllZero(events[i].data)

\* buffer 1 was read after the clear, with both blocks processed and no voice
\* recording
C15_Witness ==
    /\ sent = 2 /\ port = <<>> /\ blocks = MaxBlocks
    /\ voices[0].rec = 0 /\ voices[0].enabled = 1
    /\ Len(events) = 1
    /\ events[1].type = "buffer_data" /\ events[1].ch = 1 /\ Len(events[1].data) = 4

\* a step that delivers a reset command
ResetStep == port # <<>> /\ Head(port).cmd = "reset" /\ port' = Tail(port) /\ sent' = sent

\* what C16 lists for voice v apart from rec_level
ResetListed(vo, v) ==
    /\ vo.buffer = (IF v <= 2 THEN 0 ELSE 1)
    /\ vo.rate = U /\ vo.level = One /\ vo.level_target = One /\ vo.pan = 0
    /\ vo.loop = 0 /\ vo.loop_start = 0 /\ vo.loop_end = BUF_DURATION * U
    /\ vo.fade_time = 1
    /\ vo.enabled = 0 /\ vo.playing = 0 /\ vo.rec = 0 /\ vo.pre_level = Zero
    /\ vo.level_slew_time = 0 /\ vo.phase = 0 /\ vo.phase_quant = 0
    /\ vo.phase_accum = 0

\* C16 as stated: after a reset command both buffers are all zero and every
\* voice has the listed defaults, with rec_level among the attributes equal to 0.
C16_ResetDefaults_RecLevelZero ==
    [][ResetStep =>
         /\ \A b \in BufIdx, i \in FrameIdx : buffers'[b][i] = Zero
         /\ \A v \in VoiceIdx :
               ResetListed(voices'[v], v) /\ voices'[v].rec_level = Zero]_vars

\* C16: after a reset command both buffers are all zero and every voice has
\* buffer = 0 (voices 0-2) or 1 (voices 3-5), rate = 1, level = level_target = 1,
\* pan = 0, loop off, loop_start = 0, loop_end = max_duration, fade_time = 0.01,
\* rec_level = 1, and enabled, playing, rec, pre_level, level_slew_time, phase,
\* phase_quant and phase_accum equal to 0 or false.
C16_ResetDefaults ==
    [][ResetStep =>
         /\ \A b \in BufIdx, i \in FrameIdx : buffers'[b][i] = Zero
         /\ \A v \in VoiceIdx :
               ResetListed(voices'[v], v) /\ voices'[v].rec_level = One]_vars

\* a voice was enabled and recording while a block ran, and the third command,
\* a reset, has put every voice back
C16_Witness ==
    /\ sent = 3 /\ port = <<>> /\ tape # <<>>
    /\ \A v \in VoiceIdx : voices[v].enabled = 0 /\ voices[v].rec = 0
    /\ \A b \in BufIdx : buffers[b] = ZeroBuffer

\* the command carries a voice index or a buffer index the engine does not have
BadIndex(msg) ==
    \/ msg.cmd \in VoiceCmds /\ msg.voice \notin VoiceIdx
    \/ msg.cmd = "buffer" /\ msg.value \notin BufIdx
    \/ msg.cmd = "buffer_clear_channel" /\ msg.ch \notin BufIdx

\* C17: a voice-targeted control API call whose voice index is outside [1, 6],
\* or a buffer-targeted call whose buffer index is outside [1, 2], is rejected:
\* no command with such an index is ever posted to the engine.
C17_BadIndexNotPosted ==
    \A i \in 1..Len(port) : ~BadIndex(port[i])

\* C18: every control API call made before init has completed (no worklet
\* node) reports an error to the caller: none is dropped silently and none is
\* left waiting for a reply to a command that was never posted.
C18_NotReadyReported == callResult \notin {"dropped", "droppedPending"}

----------------------------------------------------------------------------
(* Clearing a region or a channel of loaded buffers *)

RegionStarts == {-50, 25, 50, 250, 350}     \* start (1/100 s): before, inside, past the buffer
RegionDurs == {-50, 0, 75, 100, 400}        \* dur (1/100 s)

\* both buffers loaded: the first with the constant 1, the second with 1/2
LoadedBuffers == [b \in BufIdx |-> [i \in FrameIdx |-> IF b = 0 THEN One ELSE H(50)]]

InitRegion ==
    /\ voices = [i \in VoiceIdx |-> DefaultVoice(i)]
    /\ buffers = LoadedBuffers
    /\ phasePolling = FALSE
    /\ fault = "none"
    /\ audioCtx = TRUE
    /\ workletNode = TRUE
    /\ callResult = "none"
    /\ _phaseCallback = FALSE
    /\ phaseCall = <<>>
    /\ _bufferReadResolve = 0
    /\ port = <<>>
    /\ events = <<>>
    /\ mix = NoMix
    /\ wrote = NoWrites
    /\ crossed = [v \in VoiceIdx |-> FALSE]
    /\ tape = <<>>
    /\ recPos = 0
    /\ sent = 0
    /\ blocks = 0

InitLoadedBuffers == InitClock /\ InitRegion

NextRegion ==
    \/ \E start \in RegionStarts, dur \in RegionDurs :
          sent < MaxCmds /\ ApiClearRegion(start, dur)
    \/ \E ch \in 1..NUM_BUFFERS : sent < MaxCmds /\ ApiClearChannel(ch)
    \/ HandleMessage

SpecRegion == InitLoadedBuffers /\ [][NextRegion]_vars

\* C27: handling buffer_clear_region(start, dur) zeros, in both buffers, the
\* samples with index in [floor(start*sr), floor((start+dur)*sr)) that exist
\* and leaves every other sample of both buffers as it was; handling
\* buffer_clear_channel(ch) zeros buffer ch and leaves the other buffer as it
\* was.
C27_ClearRegionExact ==
    [][(HandleMessage /\ port # <<>>) =>
          LET msg == Head(port) IN
          /\ msg.cmd = "buffer_clear_region" =>
                \A b \in BufIdx, i \in FrameIdx :
                    buffers'[b][i] =
                        IF /\ i >= (msg.start * SAMPLE_RATE) \div U
                           /\ i < ((msg.start + msg.dur) * SAMPLE_RATE) \div U
                        THEN Zero
                        ELSE buffers[b][i]
          /\ (msg.cmd = "buffer_clear_channel" /\ msg.ch \in BufIdx) =>
                \A b \in BufIdx, i \in FrameIdx :
                    buffers'[b][i] = IF b = msg.ch THEN Zero ELSE buffers[b][i]]_vars

\* a region that starts before the buffer was cleared up to index 1 in both
\* buffers and the samples from index 1 on are as loaded
C27_Witness ==
    /\ sent = 1 /\ port = <<>>
    /\ \A b \in BufIdx :
          /\ buffers[b][0] = Zero
          /\ \A i \in FrameIdx \ {0} : buffers[b][i] = LoadedBuffers[b][i]

----------------------------------------------------------------------------
(* Loading samples into loaded buffers *)

LoadStarts == {-100, -50, 25, 250, 350}   \* start_dst (1/100 s)
LoadLengths == {0, 2, 8}                  \* data.length: none, short, longer than a buffer

\* n samples, all different and none equal to a loaded one
LoadSeq(n) == [i \in 1..n |-> Rat(-i, 10)]

NextLoad ==
    \/ \E ch \in BufIdx, start \in LoadStarts, n \in LoadLengths :
          sent < MaxCmds /\ PostLoad(ch, start, LoadSeq(n))
    \/ HandleMessage

SpecLoad == InitLoadedBuffers /\ [][NextLoad]_vars

\* C28: handling buffer_load(ch, start_dst, data) stores data[i] at index
\* floor(start_dst*sr) + i of buffer ch for exactly the i whose index exists,
\* drops the rest without a fault, and leaves every other sample of buffer ch
\* and the whole other buffer as they were.
C28_LoadTruncates ==
    [][(HandleMessage /\ port # <<>>) =>
          LET msg == Head(port)
              dst == (msg.start * SAMPLE_RATE) \div U
          IN  (msg.cmd = "buffer_load" /\ msg.ch \in BufIdx) =>
                /\ fault' = fault
                /\ \A b \in BufIdx, i \in FrameIdx :
                      buffers'[b][i] =
                          IF b = msg.ch /\ i - dst >= 0 /\ i - dst < Len(msg.data)
                          THEN msg.data[i - dst + 1]
                          ELSE buffers[b][i]]_vars

\* eight samples loaded two indices before the first buffer: it holds the
\* third to the eighth of them and the second buffer is as it was
C28_Witness ==
    /\ sent = 1 /\ port = <<>> /\ fault = "none"
    /\ \A i \in FrameIdx : buffers[0][i] = LoadSeq(8)[i + 3]
    /\ buffers[1] = LoadedBuffers[1]

----------------------------------------------------------------------------
(* Level slew *)

SlewTimes == {75, 400}         \* level_slew_time (1/100 s): steps of 2/3 and of 1/8
SlewLevels == {0, 50, 100}     \* level (1/100)
MaxSlewBlocks == 2             \* process() calls allowed while no level is moving

\* voice 0 enabled, with a level slew time, playing or not
SlewVoice(t, play) ==
    Configured(DefaultVoice(0),
               <<<<"enable", 1>>, <<"level_slew_time", t>>, <<"play", play>>>>)

InitSlew ==
    /\ \E t \in SlewTimes, play \in {0, 1} :
          voices = [i \in VoiceIdx |->
                      IF i = 0 THEN SlewVoice(t, play) ELSE DefaultVoice(i)]
    /\ buffers = [b \in BufIdx |-> ZeroBuffer]
    /\ phasePolling = FALSE
    /\ fault = "none"
    /\ audioCtx = TRUE
    /\ workletNode = TRUE
    /\ callResult = "none"
    /\ _phaseCallback = FALSE
    /\ phaseCall = <<>>
    /\ _bufferReadResolve = 0
    /\ port = <<>>
    /\ events = <<>>
    /\ mix = NoMix
    /\ wrote = NoWrites
    /\ crossed = [v \in VoiceIdx |-> FALSE]
    /\ tape = <<>>
    /\ recPos = 0
    /\ sent = 0
    /\ blocks = 0

InitSlewing == InitClock /\ InitSlew

\* the level of voice v is still on its way
Slewing(v) == voices[v].enabled # 0 /\ voices[v].level # voices[v].level_target

\* one frame of audio; the audio thread keeps calling process() for as long
\* as the node lives, the count of calls is bounded only while nothing moves
SlewFrame ==
    /\ blocks < MaxSlewBlocks \/ \E v \in VoiceIdx : Slewing(v)
    /\ Process(<<Zero>>)

NextSlew ==
    \/ \E arg \in SlewLevels : sent < MaxCmds /\ ApiVoice("level", 1, arg)
    \/ \E arg \in SlewTimes : sent < MaxCmds /\ ApiVoice("level_slew_time", 1, arg)
    \/ \E arg \in {0, 1} : sent < MaxCmds /\ ApiVoice("enable", 1, arg)
    \/ HandleMessage
    \/ SlewFrame

SpecSlew == InitSlewing /\ [][NextSlew]_vars /\ WF_vars(SlewFrame)

\* the message being handled is a level command for voice v
LevelCommand(v) ==
    /\ HandleMessage /\ port # <<>>
    /\ Head(port).cmd = "level" /\ Head(port).voice = v

\* one frame moves the level of vo to lv: a whole step toward the target, or
\* onto the target when less than a step is left, and never past it
SlewStep(vo, lv) ==
    LET step == Rat(U, vo.level_slew_time * SAMPLE_RATE)
        left == RSub(vo.level_target, vo.level)
        after == RSub(vo.level_target, lv)
    IN  /\ IF RLt(RAbs(left), step) THEN lv = vo.level_target
           ELSE lv = RAdd(vo.level, RMul(<<Sign(left[1]), 1>>, step))
        /\ Sign(after[1]) \in {0, Sign(left[1])}
        /\ RLt(RAbs(after), RAbs(left))

C30_Steps ==
    [][\A v \in VoiceIdx :
          /\ (SlewFrame /\ Slewing(v) /\ voices[v].level_slew_time > 0) =>
                /\ SlewStep(voices[v], voices'[v].level)
                /\ voices'[v].level_target = voices[v].level_target
          /\ (voices[v].level = voices[v].level_target /\ ~LevelCommand(v)) =>
                voices'[v].level = voices'[v].level_target]_vars

\* some enabled voice with a slew time has a level off its target
Moving == \E v \in VoiceIdx : Slewing(v) /\ voices[v].level_slew_time > 0

C30_Reaches == Moving ~> ~Moving

\* C30: for an enabled voice with level_slew_time > 0, every frame moves a
\* level that differs from level_target by 1/(level_slew_time * sample_rate)
\* toward it, or onto it when less than that is left, never past it; the
\* level equals the target after finitely many frames and then stays equal
\* until a level command for the voice is handled.
C30_LevelSlew == C30_Steps /\ C30_Reaches

\* level 0 asked of a voice at level 1 with steps of 2/3: two frames later the
\* level is 0, having passed 1/3
C30_Witness ==
    /\ sent = 1 /\ port = <<>> /\ blocks = 2
    /\ voices[0].enabled = 1 /\ voices[0].level_slew_time = 75
    /\ voices[0].level = Zero /\ voices[0].level_target = Zero

----------------------------------------------------------------------------
(* Level with a slew time of zero *)

SnapTimes == {0, 100}          \* level_slew_time (1/100 s)
SnapLevels == {0, 100, 300}    \* level (1/100)

NextSnap ==
    \/ \E arg \in SnapLevels : sent < MaxCmds /\ ApiVoice("level", 1, arg)
    \/ \E arg \in SnapTimes : sent < MaxCmds /\ ApiVoice("level_slew_time", 1, arg)
    \/ HandleMessage
    \/ blocks < MaxBlocks /\ Process(<<Zero>>)

SpecSnap == InitSlewing /\ [][NextSnap]_vars

\* C31: with level_slew_time 0, the level of a voice equals its level_target
\* once a level command for it is handled, and once a frame of the enabled
\* voice is processed, whatever level and target were before.
C31_SnapsAtZero ==
    [][\A v \in VoiceIdx :
          /\ (LevelCommand(v) /\ voices[v].level_slew_time = 0) =>
                voices'[v].level = voices'[v].level_target
          /\ (Process(<<Zero>>) /\ voices[v].enabled # 0
                  /\ voices[v].level_slew_time = 0) =>
                voices'[v].level = voices'[v].level_target]_vars

----------------------------------------------------------------------------
(* One-shot playback *)

\* the engine with voice 0 set to vo, every other voice as constructed, both
\* buffers holding the constant sample 1, and the polling gate as given
EngineWithVoice(vo, polling) ==
    /\ voices = [i \in VoiceIdx |-> IF i = 0 THEN vo ELSE DefaultVoice(i)]
    /\ buffers = [b \in BufIdx |-> OneBuffer]
    /\ phasePolling = polling
    /\ fault = "none"
    /\ audioCtx = TRUE
    /\ workletNode = TRUE
    /\ callResult = "none"
    /\ _phaseCallback = FALSE
    /\ phaseCall = <<>>
    /\ _bufferReadResolve = 0
    /\ port = <<>>
    /\ events = <<>>
    /\ mix = NoMix
    /\ wrote = NoWrites
    /\ crossed = [v \in VoiceIdx |-> FALSE]
    /\ tape = <<>>
    /\ recPos = 0
    /\ sent = 0
    /\ blocks = 0

ShotRates == {-150, -100, 50, 250}     \* rate (1/100)
ShotPositions == {-50, 0, 250}         \* position (1/100 s)

\* voice 0 enabled and playing once through, from a position, at a rate
ShotVoice(rate, pos) ==
    Configured(DefaultVoice(0),
               <<<<"enable", 1>>, <<"loop", 0>>, <<"rate", rate>>,
                 <<"position", pos>>, <<"play", 1>>>>)

InitShot ==
    \E rate \in ShotRates, pos \in ShotPositions : EngineWithVoice(ShotVoice(rate, pos), FALSE)

InitOneShot == InitClock /\ InitShot

\* one frame of audio; process() goes on being called while a voice plays,
\* the count of calls is bounded only once every voice has stopped
ShotFrame ==
    /\ blocks < MaxLoopFrames \/ \E v \in VoiceIdx : voices[v].playing # 0
    /\ Process(<<Zero>>)

NextOneShot ==
    \/ \E arg \in ShotPositions : sent < MaxCmds /\ ApiVoice("position", 1, arg)
    \/ sent < MaxCmds /\ ApiVoice("play", 1, 1)
    \/ HandleMessage
    \/ ShotFrame

SpecOneShot == InitOneShot /\ [][NextOneShot]_vars /\ WF_vars(ShotFrame)

\* the message being handled is a position command for voice v
PositionCommand(v) ==
    /\ HandleMessage /\ port # <<>>
    /\ Head(port).cmd = "position" /\ Head(port).voice = v

\* voice v is enabled and playing with a rate other than 0
Playing(v) == voices[v].enabled # 0 /\ voices[v].playing # 0 /\ voices[v].rate # 0

C32_Stops ==
    [][\A v \in VoiceIdx :
          /\ (ShotFrame /\ Playing(v) /\ voices[v].loop = 0) =>
                LET p == voices[v].phase + voices[v].rate
                IN  /\ voices'[v].phase = p
                    /\ voices'[v].playing =
                           IF p >= BUF_FRAMES * U \/ p < 0 THEN 0 ELSE voices[v].playing
          /\ (voices[v].playing = 0 /\ ~PositionCommand(v)) =>
                voices'[v].phase = voices[v].phase]_vars

C32_Ends == Playing(0) ~> (voices[0].playing = 0)

\* C32: with loop off, an enabled playing voice with a nonzero rate stops
\* playing on the first frame whose advanced phase is >= buffer_length or
\* < 0; it always gets there, and its phase then stays as it is until a
\* position command is handled.
C32_OneShotStops == C32_Stops /\ C32_Ends

\* from position 0 at rate 2.5 the third frame passed the end of the buffer:
\* the voice has stopped at phase 7.5 and a fourth frame has left it there
C32_Witness ==
    /\ sent = 0 /\ blocks = 4
    /\ voices[0].rate = 250 /\ voices[0].playing = 0 /\ voices[0].phase = 750

----------------------------------------------------------------------------
(* Phase reporting: the global gate and the quantum of a voice *)

PollQuants == {0, 75}                  \* phase_quant (1/100 s)
PollInputs == {<<Zero>>, <<Zero, Zero>>}

\* voice 0 with a phase quantum, enabled or not, playing or not
PollVoice(quant, enable, play) ==
    Configured(DefaultVoice(0),
               <<<<"phase_quant", quant>>, <<"enable", enable>>, <<"play", play>>>>)

InitPoll ==
    \E quant \in PollQuants, enable \in {0, 1}, play \in {0, 1} :
        EngineWithVoice(PollVoice(quant, enable, play), FALSE)

InitPolling == InitClock /\ InitPoll

NextPoll ==
    \/ \E fn \in {"poll_start_phase", "poll_stop_phase", "reset"} :
          sent < MaxCmds /\ ApiPlain(fn)
    \/ \E arg \in PollQuants : sent < MaxCmds /\ ApiVoice("phase_quant", 1, arg)
    \/ \E fn \in {"enable", "play"}, arg \in {0, 1} :
          sent < MaxCmds /\ ApiVoice(fn, 1, arg)
    \/ HandleMessage
    \/ \E in \in PollInputs : blocks < MaxBlocks /\ Process(in)

SpecPoll == InitPolling /\ [][NextPoll]_vars

\* the step posts a Phase event for voice v
EmitsPhase(v) ==
    \E i \in (Len(events) + 1)..Len(events') :
        events'[i].type = "phase" /\ events'[i].voice = v

\* C33: a Phase event for voice v is posted only by a block that starts with
\* the polling gate on, voice v enabled and playing and its phase_quant > 0;
\* a block processed with the gate off, or with the phase_quant of v at 0,
\* posts no Phase event for v and leaves its phase_accum as it was.
C33_PhaseGated ==
    [][\A v \in VoiceIdx :
          /\ EmitsPhase(v) =>
                /\ phasePolling
                /\ voices[v].enabled # 0 /\ voices[v].playing # 0
                /\ voices[v].phase_quant > 0
          /\ (blocks' # blocks /\ (~phasePolling \/ voices[v].phase_quant = 0)) =>
                /\ ~EmitsPhase(v)
                /\ voices'[v].phase_accum = voices[v].phase_accum]_vars

\* two frames with the gate on posted one event and left half a frame in the
\* accumulator; the gate was then closed and a third frame changed neither
C33_Witness ==
    /\ sent = 2 /\ port = <<>> /\ blocks = 2 /\ ~phasePolling
    /\ Len(events) = 1 /\ events[1].type = "phase" /\ events[1].voice = 0
    /\ voices[0].phase = 300 /\ voices[0].phase_accum = 50

----------------------------------------------------------------------------
(* The script loader: run, runFile and stop *)

\* Call c of the loader loads script c: every import yields a module of its
\* own.  A call is an async function; its awaits end in any order against the
\* awaits of the other calls.

\* loader.stop() up to its await, as called by c: the cleanup of the current
\* script is called and awaited; with no script the body runs to its end
StopBody(c) ==
    IF _currentScript # 0
    THEN /\ cleaned' = cleaned \cup {_currentScript}
         /\ loadPc' = [loadPc EXCEPT ![c] = "cleaning"]
         /\ UNCHANGED _currentScript
    ELSE /\ loadPc' = [loadPc EXCEPT ![c] = "stopped"]
         /\ UNCHANGED <<_currentScript, cleaned>>

\* loader.run(...), loader.runFile(...) or loader.stop() is called
LoaderCall(c, kind) ==
    /\ loadPc[c] = "idle"
    /\ \A d \in Loads : d < c => loadPc[d] # "idle"
    /\ loadKind' = [loadKind EXCEPT ![c] = kind]
    /\ StopBody(c)
    /\ UNCHANGED <<inited, clockOnlyVars, initVars, engineVars, apiVars>>

\* stop() after `await _currentScript.cleanup()`
CleanupDone(c) ==
    /\ loadPc[c] = "cleaning"
    /\ _currentScript' = 0
    /\ loadPc' = [loadPc EXCEPT ![c] = "stopped"]
    /\ UNCHANGED <<loadKind, inited, cleaned, clockOnlyVars, initVars, engineVars, apiVars>>

\* after `await loader.stop()`: run starts the import, runFile reads the file,
\* a plain stop() is over
AfterStop(c) ==
    /\ loadPc[c] = "stopped"
    /\ loadPc' = [loadPc EXCEPT ![c] =
                     CASE loadKind[c] = "run" -> "importing"
                       [] loadKind[c] = "runFile" -> "reading"
                       [] OTHER -> "done"]
    /\ UNCHANGED <<_currentScript, loadKind, inited, cleaned, clockOnlyVars,
                   initVars, engineVars, apiVars>>

\* runFile after `await file.text()`: the import of the blob starts
FileRead(c) ==
    /\ loadPc[c] = "reading"
    /\ loadPc' = [loadPc EXCEPT ![c] = "importing"]
    /\ UNCHANGED <<_currentScript, loadKind, inited, cleaned, clockOnlyVars,
                   initVars, engineVars, apiVars>>

\* after `await import(url)`: the module is stored and its init is invoked
Imported(c) ==
    /\ loadPc[c] = "importing"
    /\ _currentScript' = c
    /\ inited' = inited \cup {c}
    /\ loadPc' = [loadPc EXCEPT ![c] = "init"]
    /\ UNCHANGED <<loadKind, cleaned, clockOnlyVars, initVars, engineVars, apiVars>>

\* after `await mod.init(canvas, audioCtx)`: the call returns the module
InitDone(c) ==
    /\ loadPc[c] = "init"
    /\ loadPc' = [loadPc EXCEPT ![c] = "done"]
    /\ UNCHANGED <<_currentScript, loadKind, inited, cleaned, clockOnlyVars,
                   initVars, engineVars, apiVars>>

NextLoader ==
    \/ \E c \in Loads, kind \in {"run", "runFile", "stop"} : LoaderCall(c, kind)
    \/ \E c \in Loads : CleanupDone(c)
    \/ \E c \in Loads : AfterStop(c)
    \/ \E c \in Loads : FileRead(c)
    \/ \E c \in Loads : Imported(c)
    \/ \E c \in Loads : InitDone(c)

SpecLoader == Init /\ [][NextLoader]_vars

\* C34: when the init of a script is invoked, the cleanup of every script
\* whose init was invoked before has been called.
C34_OneActive == [][inited' # inited => inited \subseteq cleaned]_vars

----------------------------------------------------------------------------
(* The signal a suspension is bound to *)

\* C35: the sleep or sync a task is suspended in listens to the cancellation
\* signal of that task, so that cancel(a) wakes the suspension of a and the
\* cancel of another task does not.
C35_OwnSignal ==
    \A t \in Ids : pc[t] = "sleeping" => wait[t].sig = t

----------------------------------------------------------------------------
(* buffer_write_mono: the promise and its resolver *)

\* calls of buffer_write_mono and buffer_read commands posted to the port by
\* a script, before and after softcut.init, with the processor answering
NextWrite ==
    \/ InitContext
    \/ InitNode
    \/ \E dur \in {-1, U} : sent < MaxCmds /\ ApiWriteMono(0, dur, 1)
    \/ sent < MaxCmds /\ workletNode /\ PostRead(0, U, U)
    \/ HandleMessage
    \/ OnMessage

\* the processor handles every command posted and the main thread every
\* message it is sent
SpecWrite ==
    InitLoaded /\ [][NextWrite]_vars /\ WF_vars(HandleMessage) /\ WF_vars(OnMessage)

\* the resolver of a call stays stored until it is called
C36_ResolverKept ==
    [][_bufferReadResolve # 0 => _bufferReadResolve' \in {0, _bufferReadResolve}]_vars

\* a stored resolver is called in the end
C36_ResolverCalled == (_bufferReadResolve # 0) ~> (_bufferReadResolve = 0)

\* C36: every call of buffer_write_mono resolves: the resolver it stores is
\* not replaced while its promise is pending, and it is called in the end
\* (with the answer to the call's own buffer_read).
C36_WriteResolves == C36_ResolverKept /\ C36_ResolverCalled

----------------------------------------------------------------------------
(* softcut.init called more than once *)

\* `ready` is set in the same synchronous stretch that stores the node, so a
\* call finds ready true exactly when workletNode is set.

\* softcut.init(ctx) is called: it returns at once when ready; otherwise it
\* stores the context and awaits resume() of a suspended context, or
\* addModule straight away
SoftcutInit(c, suspended) ==
    /\ initPc[c] = "idle"
    /\ \A d \in Inits : d < c => initPc[d] # "idle"
    /\ IF workletNode
       THEN /\ initPc' = [initPc EXCEPT ![c] = "done"]
            /\ UNCHANGED audioCtx
       ELSE /\ initPc' = [initPc EXCEPT ![c] = IF suspended THEN "resuming" ELSE "adding"]
            /\ audioCtx' = TRUE
    /\ UNCHANGED <<nodes, workletNode, callResult, callbackVars, clockOnlyVars,
                   loaderVars, engineVars>>

\* after `await audioCtx.resume()`: addModule is called and awaited
Resumed(c) ==
    /\ initPc[c] = "resuming"
    /\ initPc' = [initPc EXCEPT ![c] = "adding"]
    /\ UNCHANGED <<nodes, audioCtx, workletNode, callResult, callbackVars,
                   clockOnlyVars, loaderVars, engineVars>>

\* after `await audioCtx.audioWorklet.addModule(...)`: a node is created,
\* connected and stored, and ready is set
ModuleAdded(c) ==
    /\ initPc[c] = "adding"
    /\ initPc' = [initPc EXCEPT ![c] = "done"]
    /\ nodes' = nodes + 1
    /\ workletNode' = TRUE
    /\ UNCHANGED <<audioCtx, callResult, callbackVars, clockOnlyVars, loaderVars,
                   engineVars>>

NextInit ==
    \/ \E c \in Inits, suspended \in BOOLEAN : SoftcutInit(c, suspended)
    \/ \E c \in Inits : Resumed(c)
    \/ \E c \in Inits : ModuleAdded(c)
    \/ \E arg \in {0, 1} : sent < MaxCmds /\ ApiVoice("enable", 1, arg)
    \/ HandleMessage

SpecInit == InitLoaded /\ [][NextInit]_vars

\* C37: whatever the init calls and however they overlap, at most one worklet
\* node is ever created and connected.
C37_OneNode == nodes <= 1

----------------------------------------------------------------------------
(* The engine reset and the polling gate *)

MaxResetCmds == 4    \* control API calls per behaviour: reset and three to set up a voice

\* the gate open or closed, voice 0 not enabled and at twice the default rate
InitGate ==
    \E polling \in BOOLEAN :
        EngineWithVoice(Configured(DefaultVoice(0), <<<<"rate", 2 * U>>>>), polling)

InitGated == InitClock /\ InitGate

NextReset ==
    \/ sent < MaxResetCmds /\ ApiPlain("reset")
    \/ \E fn \in {"enable", "play"} : sent < MaxResetCmds /\ ApiVoice(fn, 1, 1)
    \/ sent < MaxResetCmds /\ ApiVoice("phase_quant", 1, 75)
    \/ HandleMessage
    \/ blocks < MaxBlocks /\ Process(<<Zero, Zero>>)

SpecReset == InitGated /\ [][NextReset]_vars

\* the message being handled is the reset command
ResetCommand == HandleMessage /\ port # <<>> /\ Head(port).cmd = "reset"

\* C38: handling the reset command leaves the polling gate as it was, while
\* putting every voice back to its defaults.
C38_ResetKeepsGate ==
    [][ResetCommand =>
          /\ phasePolling' = phasePolling
          /\ voices' = [i \in VoiceIdx |-> DefaultVoice(i)]]_vars

\* reset brought the rate of voice 0 back to 1; the voice, then enabled, played
\* and given a quantum, has posted a Phase event though the gate was never
\* opened again
C38_Witness ==
    /\ sent = 4 /\ port = <<>> /\ phasePolling
    /\ voices[0].rate = U /\ voices[0].enabled = 1 /\ voices[0].playing = 1
    /\ voices[0].phase_quant = 75
    /\ events # <<>> /\ events[1].type = "phase" /\ events[1].voice = 0

----------------------------------------------------------------------------
(* Crossfade gain at the loop boundaries *)

FadeStarts == {0, 50}            \* loop_start (1/100 s)
FadeLengths == {1, 100}          \* loop_end - loop_start (1/100 s)
FadeRates == {-2, -1, 1, 2}      \* rate (1/100): half a fade, a whole fade per frame

\* voice 0 set up as a loop with fade_time 0.01 s, hard left, level 1, placed
\* at loop_start or at loop_end
FadeVoice(rate, ls, len, atEnd) ==
    Configured(DefaultVoice(0),
               <<<<"enable", 1>>, <<"loop", 1>>, <<"rate", rate>>, <<"pan", -U>>,
                 <<"loop_start", ls>>, <<"loop_end", ls + len>>, <<"fade_time", 1>>,
                 <<"position", IF atEnd THEN ls + len ELSE ls>>, <<"play", 1>>>>)

InitFade ==
    /\ \E rate \in FadeRates, ls \in FadeStarts, len \in FadeLengths, atEnd \in BOOLEAN :
          voices = [i \in VoiceIdx |->
                      IF i = 0 THEN FadeVoice(rate, ls, len, atEnd) ELSE DefaultVoice(i)]
    /\ buffers = [b \in BufIdx |-> OneBuffer]
    /\ phasePolling = FALSE
    /\ fault = "none"
    /\ audioCtx = TRUE
    /\ workletNode = TRUE
    /\ callResult = "none"
    /\ _phaseCallback = FALSE
    /\ phaseCall = <<>>
    /\ _bufferReadResolve = 0
    /\ port = <<>>
    /\ events = <<>>
    /\ mix = NoMix
    /\ wrote = NoWrites
    /\ crossed = [v \in VoiceIdx |-> FALSE]
    /\ tape = <<>>
    /\ recPos = 0
    /\ sent = 0
    /\ blocks = 0

InitFading == InitClock /\ InitFade

NextFade == blocks < MaxLoopFrames /\ Process(<<Zero>>)

SpecFade == InitFading /\ [][NextFade]_vars

\* voice 0 reads half a fade after loop_start
HalfFadeIn == 2 * (voices[0].phase - loopStartSamp(voices[0])) = fadeSamples(voices[0])

\* voice 0 reads half a fade before loop_end
HalfFadeOut == 2 * (loopEndSamp(voices[0]) - voices[0].phase) = fadeSamples(voices[0])

\* the left output of voice 0 in the frame processed by this step: with
\* sample 1, level 1 and left gain 1 it is the crossfade gain of the frame
FrameGain == mix'[0][1][1]

----------------------------------------------------------------------------
(* Index translation between the control API and the engine *)

IndexVoices == {1, NUM_VOICES}      \* API voice numbers used
IndexFns == {"enable", "play", "phase_quant", "buffer"}
IndexArgs(fn) ==
    CASE fn \in {"enable", "play"} -> {1}
      [] fn = "phase_quant" -> {U \div 2}
      [] fn = "buffer" -> {1, NUM_BUFFERS}

\* softcut.init has finished, a phase callback is stored with event_phase(fn)
\* and the processor has handled poll_start_phase
InitIndex ==
    /\ voices = [i \in VoiceIdx |-> DefaultVoice(i)]
    /\ buffers = [b \in BufIdx |-> ZeroBuffer]
    /\ phasePolling = TRUE
    /\ fault = "none"
    /\ audioCtx = TRUE
    /\ workletNode = TRUE
    /\ callResult = "posted"
    /\ _phaseCallback = TRUE
    /\ phaseCall = <<>>
    /\ _bufferReadResolve = 0
    /\ port = <<>>
    /\ events = <<>>
    /\ mix = NoMix
    /\ wrote = NoWrites
    /\ crossed = [v \in VoiceIdx |-> FALSE]
    /\ tape = <<>>
    /\ recPos = 0
    /\ sent = 0
    /\ blocks = 0

InitTranslating == InitClock /\ InitIndex

NextIndex ==
    \/ \E fn \in IndexFns, voice \in IndexVoices : \E arg \in IndexArgs(fn) :
          sent < MaxCmds /\ ApiVoice(fn, voice, arg)
    \/ HandleMessage
    \/ \E in \in EngineInputs : blocks < MaxBlocks /\ Process(in)
    \/ OnMessage

SpecIndex == InitTranslating /\ [][NextIndex]_vars

\* C24: a command for API voice v reaches the port with engine voice v - 1,
\* and API buffer b with buffer b - 1; the phase callback is called with the
\* API number of an engine voice that was set up (enabled, phase_quant > 0),
\* that is with the v its commands were sent for.
C24_IndicesTranslated ==
    /\ [][\A fn \in IndexFns, v \in IndexVoices : \A arg \in IndexArgs(fn) :
            ApiVoice(fn, v, arg) =>
                /\ port'[Len(port')].voice = v - 1
                /\ fn = "buffer" => port'[Len(port')].value = arg - 1]_vars
    /\ [](phaseCall # <<>> =>
            /\ phaseCall[1] - 1 \in VoiceIdx
            /\ voices[phaseCall[1] - 1].enabled # 0
            /\ voices[phaseCall[1] - 1].phase_quant > 0)

\* the phase callback was called for API voice 6, played from the second buffer
C24_Witness ==
    /\ phaseCall # <<>>
    /\ phaseCall[1] = NUM_VOICES
    /\ voices[NUM_VOICES - 1].playing # 0

----------------------------------------------------------------------------
(* The grid point sync waits for *)

GridTempos == {70, 120}          \* tempo the clock was set to (bpm)
GridBeats == {4, 15000}          \* sync beat arguments: below 0.0001 beat, 1/4 beat
GridOffsets == {0, 6000}         \* sync offset arguments: none, 0.1 beat

\* the clock module as loaded, after set_tempo to one of tempos; the
\* functions that will be given to clock.run have n segments
ClockAt(tempos, n) ==
    /\ now = 0
    /\ _tempo \in tempos
    /\ _running = FALSE
    /\ _refTime = 0
    /\ _refBeats = 0
    /\ _nextId = 1
    /\ _coroutines = {}
    /\ _currentSignal = 0
    /\ aborted = {}
    /\ pc = [t \in Ids |-> "unborn"]
    /\ wait = [t \in Ids |-> NoWait]
    /\ timers = <<>>
    /\ mq = <<>>
    /\ stack = <<>>
    /\ firstSeg = {}
    /\ segs = [t \in Ids |-> 0]
    /\ outcome = [t \in Ids |-> "none"]
    /\ cancelledSusp = {}
    /\ ranAfter = {}
    /\ tempo_change_handler = FALSE
    /\ handlerCalls = <<>>
    /\ transport = [start |-> FALSE, stop |-> FALSE]
    /\ transportCalls = <<>>
    /\ fnSegs = n
    /\ LoaderLoaded
    /\ NoInitCalls

InitGrid == ClockAt(GridTempos, MaxSegs) /\ InitEngine

\* Tasks that sync to the grid of a clock that, once started, keeps running at
\* one tempo.
NextGrid ==
    \/ \E d \in TickSteps \cup {wait[t].target - now : t \in Ids} : Tick(d)
    \/ Start
    \/ Run("async")
    \/ \E b \in GridBeats, o \in GridOffsets : TaskSync(b, o)
    \/ TaskEnd("returned")
    \/ \E t \in Ids : WakeTimer(t)
    \/ JobSleepOk
    \/ JobUser
    \/ JobSettle

SpecGrid == InitGrid /\ [][NextGrid]_vars

\* the sync call reaches a target nb that lies on its grid, more than 0.0001
\* beat and at most beat + 0.0001 beat after the current position, and the
\* caller waits a positive time that ends within a millisecond of the target
TargetAhead(beat, offset) ==
    LET nb == NextBeat(beat, offset) IN
    /\ (nb - offset) % beat = 0
    /\ nb - getBeats > EPS_SYNC
    /\ nb - getBeats <= beat + EPS_SYNC
    /\ wait'[Top].target > now
    /\ (wait'[Top].target - now - 1) * _tempo < nb - getBeats

\* C29 as stated: with the clock running, every sync(beat, offset) with
\* beat > 0 targets a grid point congruent to offset modulo beat, more than
\* 0.0001 beat and at most beat + 0.0001 beat ahead of the current position, and
\* waits a positive time.
C29_TargetAhead_AnyBeat ==
    [][\A b \in GridBeats, o \in GridOffsets :
          (TaskSync(b, o) /\ _running /\ b > 0) => TargetAhead(b, o)]_vars

\* C29: the same for every sync(beat, offset) whose beat is more than 0.0001
\* beat.
C29_TargetAhead ==
    [][\A b \in GridBeats, o \in GridOffsets :
          (TaskSync(b, o) /\ _running /\ b > EPS_SYNC) => TargetAhead(b, o)]_vars

\* a task called sync(1/4, 0.1) from a position on that grid, after the clock
\* had run for a while, and waits a whole interval for the next point
C29_Witness ==
    \E t \in Ids :
        /\ pc[t] = "sleeping" /\ wait[t].kind = "sync" /\ wait[t].grid
        /\ wait[t].beat = 15000 /\ wait[t].offset = 6000
        /\ _tempo = 120 /\ now > _refTime
        /\ (getBeats - wait[t].offset) % wait[t].beat = 0
        /\ wait[t].target = now + 125

----------------------------------------------------------------------------
(* A task that loops on sync *)

InitSyncLoop == ClockAt(GridTempos, MaxLoopSegs) /\ InitEngine

\* Tasks that loop on sync, next to a task that keeps the thread busy for a
\* few milliseconds, on a clock that once started keeps running at one tempo.
NextSyncLoop ==
    \/ \E d \in TickSteps \cup {wait[t].target - now : t \in Ids} : Tick(d)
    \/ Start
    \/ Run("async")
    \/ \E b \in BeatArgs, o \in OffsetArgs : TaskSync(b, o)
    \/ TaskSleep(3)
    \/ TaskEnd("returned")
    \/ \E t \in Ids : WakeTimer(t)
    \/ JobSleepOk
    \/ JobUser
    \/ JobSettle

SpecSyncLoop == InitSyncLoop /\ [][NextSyncLoop]_vars

\* index of the grid interval [k * beat + offset, (k + 1) * beat + offset) that
\* holds position x
GridCell(x, beat, offset) == (x - offset) \div beat

\* beats() at clock reading time, for a clock running since _refTime
BeatsAt(time) == (time - _refTime) * _tempo + _refBeats

----------------------------------------------------------------------------
(* Tempo range and the tempo change hook *)

C20_HandlerEveryCall ==
    [][\A bpm \in TempoArgs :
          (tempo_change_handler /\ SetTempo(bpm)) =>
              handlerCalls' = <<ClampTempo(bpm)>>]_vars

\* C21: start called while the clock is running, and stop called while it is
\* stopped, leave running, the reference time, the reference beats and the
\* tempo as they were and fire no transport hook.
C21_TransportIdempotent ==
    [][/\ (_running /\ Start) =>
             (UNCHANGED <<_running, _refTime, _refBeats, _tempo>> /\ transportCalls' = <<>>)
       /\ (~_running /\ Stop) =>
             (UNCHANGED <<_running, _refTime, _refBeats, _tempo>> /\ transportCalls' = <<>>)]_vars

\* the clock was started with the start hook set and has run for a while: a
\* second start finds it running
C21_Witness ==
    /\ _running /\ now > _refTime
    /\ transport.start /\ transport.stop
    /\ transportCalls = <<"start">>

\* C22: once cleanup() has returned the registry is empty and the transport
\* and tempo-change hooks are unset; every task that was suspended in sleep or
\* sync when it was called is woken with the AbortError and runs no user code
\* afterwards.
C22_CleanupEndsAll ==
    /\ [][Cleanup => /\ _coroutines' = {}
                     /\ ~transport'.start /\ ~transport'.stop
                     /\ ~tempo_change_handler']_vars
    /\ [](\A t \in cancelledSusp :
            /\ t \notin ranAfter
            /\ \/ pc[t] = "done" /\ outcome[t] = "aborted"
               \/ pc[t] = "queued" /\ AbortQueued(t))

\* C23: an error of its own thrown by a task's function stays inside the task:
\* the step in which it is thrown changes neither the position, the outcome
\* nor the registration of any other task (the caller of run included), and
\* once the failing task has terminated its id is not in the registry.
C23_ErrorContained ==
    /\ [][\A t \in Ids :
            (outcome'[t] = "threw" /\ outcome[t] # "threw") =>
                \A u \in Ids \ {t} :
                    /\ pc'[u] = pc[u]
                    /\ outcome'[u] = outcome[u]
                    /\ (u \in _coroutines') = (u \in _coroutines)]_vars
    /\ [](\A t \in Ids :
            (outcome[t] = "threw" /\ pc[t] = "done") => t \notin _coroutines)

----------------------------------------------------------------------------
(* Loop on with loop_end at or before loop_start *)

EmptyLoopStarts == {100, 200}          \* loop_start (1/100 s)
EmptyLoopEnds == {0, 100}              \* loop_end (1/100 s), never past loop_start
EmptyLoopRates == {-100, 100}          \* rate (1/100)
EmptyLoopPositions == {0, 250}         \* position (1/100 s)

\* voice 0 enabled and playing hard left with loop on, a fade of one second
\* and loop points that leave no loop
EmptyLoopVoice(rate, pos, ls, le) ==
    Configured(DefaultVoice(0),
               <<<<"enable", 1>>, <<"loop", 1>>, <<"rate", rate>>, <<"pan", -U>>,
                 <<"loop_start", ls>>, <<"loop_end", le>>, <<"fade_time", U>>,
                 <<"position", pos>>, <<"play", 1>>>>)

InitEmptyLoop ==
    \E rate \in EmptyLoopRates, pos \in EmptyLoopPositions,
       ls \in EmptyLoopStarts, le \in EmptyLoopEnds :
        EngineWithVoice(EmptyLoopVoice(rate, pos, ls, le), FALSE)

InitNoLoop == InitClock /\ InitEmptyLoop

NextNoLoop ==
    \/ sent < MaxCmds /\ ApiVoice("play", 1, 1)
    \/ HandleMessage
    \/ ShotFrame

SpecNoLoop == InitNoLoop /\ [][NextNoLoop]_vars

\* C39: a frame of a playing voice with loop on and loop_end <= loop_start
\* advances the phase by the rate with no wrap, plays the sample at full fade
\* gain, and stops the voice exactly when the advanced phase is
\* >= buffer_length or < 0.
C39_EmptyLoopIsOneShot ==
    [][\A v \in {0} :
          (blocks' # blocks /\ Playing(v) /\ voices[v].loop # 0
              /\ voices[v].loop_end <= voices[v].loop_start) =>
            LET p == voices[v].phase + voices[v].rate
            IN  /\ voices'[v].phase = p
                /\ voices'[v].playing = IF p >= BUF_FRAMES * U \/ p < 0 THEN 0 ELSE 1
                /\ FrameGain = RMul(ReadSample(buffers[voices[v].buffer], voices[v].phase),
                                    voices[v].level)]_vars

\* from position 0 at rate 1 the voice went through loop_end (1 s) and
\* loop_start (2 s) without a wrap and stopped at the end of the buffer
C39_Witness ==
    /\ sent = 0 /\ blocks = 6
    /\ voices[0].loop = 1 /\ voices[0].loop_start = 200 /\ voices[0].loop_end = 100
    /\ voices[0].playing = 0 /\ voices[0].phase = BUF_FRAMES * U

====
